---- MODULE Spec2Model ----
(***************************************************************************)
(* Behavioural monitoring engine of OAPS (hooks/useMonitoring): the single *)
(* AI inference loop (aiLoop) with the gaze state machine, the face-absence*)
(* tracker, the per-label object cooldown tracker and the time-quality     *)
(* accumulators, together with the session event log of the session store. *)
(*                                                                         *)
(* Time is in milliseconds.  Confidences and scores are in hundredths      *)
(* (0.6 is 60).  One aiLoop invocation is split where the code awaits:     *)
(* AiLoopEnter runs up to the first await, GazeInferenceDone resumes after *)
(* `await runGazeInference`, ObjectDetectionDone after                     *)
(* `await runObjectDetection`.                                             *)
(***************************************************************************)
EXTENDS Integers, Sequences, FiniteSets, TLC

\* ---------------------------------------------------------------- constants
INFERENCE_INTERVAL_MS == 100
STAGGERED_INTERVAL_MS == 150
SUSTAIN_DURATION_MS == 2500
CENTERED_SUSTAIN_DURATION_MS == 3500
GAZE_COOLDOWN_MS == 5000
MIN_FACE_CONFIDENCE == 60
FACE_ABSENCE_SUSTAIN_MS == 2500
FACE_ABSENCE_COOLDOWN_MS == 5000
CONFIDENCE_THRESHOLD == 65
MAX_YAW_NORMAL == 18
MAX_PITCH_NORMAL == 22
STRONG_YAW_DEG == 25
STRONG_PITCH_UP_DEG == 30
STRONG_PITCH_DOWN_DEG == 35
OBJECT_DETECTION_COOLDOWN_MS == 5000
COALESCE_WINDOW_MS == 800
PROHIBITED_LABELS ==
  {"cell phone", "book", "laptop", "remote", "keyboard", "mouse", "tablet",
   "paper", "notepad"}

\* `null` of a number | null ref, and NaN of a number
Null == -1
NaN == -2

\* ------------------------------------------------------------------ bounds
\* Date.now() when the session starts, and performance.timeOrigin
SessionStart == 100000
TimeOrigin == 90000
\* the model follows the session for Horizon ms and MaxEvents log entries
Horizon == 9000
MaxEvents == 3
MaxBatch == 2
\* the gaps between two moments at which something happens
Deltas == {1000, 2499, 2500}
\* the session life cycle is followed for SessionHorizon ms, with at most
\* MaxFrames animation frames requested and not yet fired
SessionHorizon == 3500
MaxFrames == 2
SessionDeltas == {1000, 2500}
\* the gaps between two signals of the window or the document
TabGaps == {799, 800}
\* the time the model takes over one frame
InferenceTimes == {300}
\* the loads of one model that are told apart
MaxLoads == 2
\* the analysis requests that are told apart
MaxRequests == 3
\* the calls of getUserMedia that are followed
MaxCameraCalls == 6
\* the time the sessions with sustained deviations are followed for
SustainHorizon == 5500
\* the time-quality buckets are followed for TimeQualityHorizon ms over frames
\* FrameGaps apart, some of them closer than INFERENCE_INTERVAL_MS
TimeQualityHorizon == 400
FrameGaps == {40, 100, 102}
\* by how much the system clock may be set back, in a session followed for
\* ClockHorizon ms
ClockSetBacks == {100}
ClockHorizon == 240
\* the metrics aggregator is applied to logs of up to MaxLog events
MaxLog == 3
\* the risk calculator is applied to counts up to MaxCount, and to LargeCount
MaxCount == 6
LargeCount == 1000000

\* ------------------------------------------------------------------ inputs
Confidences == {50, 90, NaN}
Yaws == {0, 20, 26}
Pitches == {0, -31}
NoFace == [none |-> TRUE, probability |-> 0, yaw |-> 0, pitch |-> 0, centered |-> FALSE]
RawFaces ==
  {NoFace} \cup
  [none : {FALSE}, probability : Confidences, yaw : Yaws, pitch : Pitches,
   centered : BOOLEAN]
RawClasses == {"cell phone", "book", "person"}
RawScores == {50, 90}
RawPredictions == [class : RawClasses, score : RawScores]

Abs(x) == IF x < 0 THEN -x ELSE x

\* a < b of two JavaScript numbers (false when either is NaN)
NumLess(a, b) == a # NaN /\ b # NaN /\ a < b

\* ---------------------------------------------------------- gaze classifier
isInSafeZone(yawDeg, pitchDeg) ==
  Abs(yawDeg) <= MAX_YAW_NORMAL /\ Abs(pitchDeg) <= MAX_PITCH_NORMAL

isStrongDeviationCheck(yawDeg, pitchDeg) ==
  \/ Abs(yawDeg) > STRONG_YAW_DEG
  \/ pitchDeg < -STRONG_PITCH_UP_DEG
  \/ pitchDeg > STRONG_PITCH_DOWN_DEG

NO_FACE_RESULT(confidence) ==
  [faceDetected |-> FALSE, faceDetectionConfidence |-> confidence,
   inSafeZone |-> FALSE, isStrongDeviation |-> FALSE, isCentered |-> FALSE]

\* the GazeResult of one inference on the best prediction `raw`
runGazeInference(raw) ==
  IF raw.none THEN NO_FACE_RESULT(0)
  ELSE IF NumLess(raw.probability, MIN_FACE_CONFIDENCE)
       THEN NO_FACE_RESULT(raw.probability)
  ELSE [faceDetected |-> TRUE, faceDetectionConfidence |-> raw.probability,
        inSafeZone |-> isInSafeZone(raw.yaw, raw.pitch),
        isStrongDeviation |-> isStrongDeviationCheck(raw.yaw, raw.pitch),
        isCentered |-> raw.centered]

GazeResults == {runGazeInference(raw) : raw \in RawFaces}

\* ------------------------------------------------------- object detector
RECURSIVE FilterDetections(_)
FilterDetections(rawPredictions) ==
  IF rawPredictions = << >> THEN << >>
  ELSE LET p == Head(rawPredictions)
           rest == FilterDetections(Tail(rawPredictions))
       IN IF p.score >= CONFIDENCE_THRESHOLD /\ p.class \in PROHIBITED_LABELS
          THEN <<[label |-> p.class, score |-> p.score]>> \o rest
          ELSE rest

runObjectDetection(rawPredictions) == FilterDetections(rawPredictions)

RawBatches ==
  UNION {[1..n -> RawPredictions] : n \in 0..MaxBatch}

\* the detections runObjectDetection returns
DetectionResults == {runObjectDetection(batch) : batch \in RawBatches}

\* the detections an ObjectDetectionResult can hold by its type
DetectedObjects == [label : {"cell phone", "person"}, score : RawScores]
DetectionLists ==
  UNION {[1..n -> DetectedObjects] : n \in 0..MaxBatch}

Labels == RawClasses

\* ------------------------------------------------------------------- state
VARIABLES
  clock,                \* Date.now()
  pc,                   \* "raf": next frame requested; "awaitGaze"; "awaitObj"
  frameNow, deltaMs, rafNow,      \* locals of the aiLoop invocation in flight
  lastFrameTimeRef, lastGazeInferenceRef, lastObjInferenceRef,
  gazeModelLoaded, objectModelLoaded,
  gazeStateRef, deviationStartRef, lastGazeAlertTimeRef,
  absenceStartRef, lastFaceAbsentTimeRef, isFaceAbsentLoggedRef,
  objectCooldownMap,
  tqFocusedRef, tqMinorRef, tqDeviationRef, tqAbsenceRef, longestGazeAwayRef,
  lastLoggedAt,         \* of the tab-switch effect
  events,               \* the session store's event log
  isSessionActive,      \* the session store's flag (and isSessionActiveRef)
  aiRafRef,             \* id of the animation frame requested last, or Null
  rafQueue,             \* animation frames requested, not yet fired or cancelled
  otherLoop,            \* locals of a second aiLoop invocation, held at its await
  riskInput, riskOutput,          \* the risk calculation made last
  prevRiskInput, prevRiskOutput,  \* and the one before it
  sessionStartTime, sessionEndTime, riskScore,    \* the session store's
  timeQuality,          \* the hook's published TimeQualityMetrics
  eventIds,             \* the id of each event of the log, in log order
  metricsInput, metricsOutput,    \* the metrics aggregation made last
  strongSince,          \* the first of the latest ticks in strong deviation
  gazeModule, objectModule,   \* the module state of the two model loaders
  report, isLoading, error,   \* the state of useGeminiAnalysis
  isInFlightRef,              \* and its ref
  requestsInFlight,     \* the analysis requests sent and not yet completed
  webcamStatus, streamRef,    \* the status and the ref of useWebcam
  liveStreams,          \* the media streams obtained and not stopped
  cameraRequests,       \* the getUserMedia calls that have not settled
  cameraCalls,          \* how many times getUserMedia was called so far
  monitoringStatus,     \* the status of the monitoring hook
  effectDeps,           \* what the latest run of the webcam effect saw
  effectStart           \* the camera request of that run, while not cancelled

loopVars == <<pc, frameNow, deltaMs, rafNow, lastFrameTimeRef,
              lastGazeInferenceRef, lastObjInferenceRef>>
modelVars == <<gazeModelLoaded, objectModelLoaded>>
gazeVars == <<gazeStateRef, deviationStartRef, lastGazeAlertTimeRef>>
absenceVars == <<absenceStartRef, lastFaceAbsentTimeRef, isFaceAbsentLoggedRef>>
tqVars == <<tqFocusedRef, tqMinorRef, tqDeviationRef, tqAbsenceRef,
            longestGazeAwayRef>>
sessionVars == <<isSessionActive, aiRafRef, rafQueue, otherLoop>>
riskVars == <<riskInput, riskOutput, prevRiskInput, prevRiskOutput>>
storeVars == <<sessionStartTime, sessionEndTime, riskScore>>
viewVars == <<timeQuality, eventIds, metricsInput, metricsOutput>>
moduleVars == <<gazeModule, objectModule>>
reportVars == <<report, isLoading, error, isInFlightRef, requestsInFlight>>
webcamVars == <<webcamStatus, streamRef, liveStreams, cameraRequests,
                cameraCalls, monitoringStatus, effectDeps, effectStart>>
restVars == <<strongSince, moduleVars, reportVars, webcamVars>>
vars == <<clock, loopVars, modelVars, gazeVars, absenceVars, objectCooldownMap,
          tqVars, lastLoggedAt, events, sessionVars, riskVars, storeVars,
          viewVars, restVars>>

MaxClock == SessionStart + Horizon

\* a SessionEvent: type, timestamp and the metadata the trackers attach
Event(type, timestamp, durationMs, label) ==
  [type |-> type, timestamp |-> timestamp, durationMs |-> durationMs,
   label |-> label, score |-> 0]

\* the OBJECT_DETECTED event of a detection: metadata label and score
ObjectEvent(now, det) ==
  [Event("OBJECT_DETECTED", now, 0, det.label) EXCEPT !.score = det.score]

\* (mutant) the log keeps the latest event only
addEvent_KeepsLatest(log, event) == <<event>>

\* (mutant) the new event is put first
addEvent_Prepend(log, event) == <<event>> \o log

\* the store's addEvent
addEvent(log, event) == Append(log, event)

\* _model, _modelLoadPromise and _isModelLoaded of a loader module before any
\* load, with the loads started and not yet settled
NoModel == [model |-> Null, promise |-> Null, loaded |-> FALSE, inflight |-> {}]

\* no aiLoop invocation: the locals of one that has ended
NoInvocation == [pc |-> "raf", frameNow |-> 0, deltaMs |-> 0, rafNow |-> 0]

\* ------------------------------------------------------- risk calculator
RISK_WEIGHT_GAZE == 8
RISK_CAP_GAZE == 5
RISK_WEIGHT_ABSENCE == 15
RISK_CAP_ABSENCE == 3
RISK_WEIGHT_OBJECT == 20
RISK_CAP_OBJECT == 3
RISK_WEIGHT_TAB == 6
RISK_CAP_TAB == 5
RISK_THRESHOLD_MEDIUM == 35
RISK_THRESHOLD_HIGH == 70

MathMin(a, b) == IF a < b THEN a ELSE b
MathMax(a, b) == IF a > b THEN a ELSE b
\* Math.round of a number that is an integer
MathRound(x) == x

RiskInputOf(gaze, absence, object, tab, duration) ==
  [gazeDeviationCount |-> gaze, faceAbsenceCount |-> absence,
   objectDetectionCount |-> object, tabSwitchCount |-> tab,
   sessionDurationMs |-> duration]

\* (mutant) the count is not capped
impact_NoCap(count, cap, weight) == count * weight

\* (mutant) a count above the cap contributes nothing
impact_DropsAboveCap(count, cap, weight) ==
  IF count > cap THEN 0 ELSE count * weight

\* the impact of one category: Math.min(count, cap) * weight
impact(count, cap, weight) == MathMin(count, cap) * weight

\* (mutant) a session of no duration scores nothing
rawRiskScore_NoneWithoutDuration(input) ==
  IF input.sessionDurationMs = 0 THEN 0
  ELSE impact(input.gazeDeviationCount, RISK_CAP_GAZE, RISK_WEIGHT_GAZE)
       + impact(input.faceAbsenceCount, RISK_CAP_ABSENCE, RISK_WEIGHT_ABSENCE)
       + impact(input.objectDetectionCount, RISK_CAP_OBJECT, RISK_WEIGHT_OBJECT)
       + impact(input.tabSwitchCount, RISK_CAP_TAB, RISK_WEIGHT_TAB)

\* raw = gazeImpact + absenceImpact + objectImpact + tabImpact
rawRiskScore(input) ==
  impact(input.gazeDeviationCount, RISK_CAP_GAZE, RISK_WEIGHT_GAZE)
  + impact(input.faceAbsenceCount, RISK_CAP_ABSENCE, RISK_WEIGHT_ABSENCE)
  + impact(input.objectDetectionCount, RISK_CAP_OBJECT, RISK_WEIGHT_OBJECT)
  + impact(input.tabSwitchCount, RISK_CAP_TAB, RISK_WEIGHT_TAB)

\* (mutant) the score is not clamped
clampRiskScore_NoClamp(raw) == MathRound(raw)

\* score = Math.min(100, Math.max(0, Math.round(raw)))
clampRiskScore(raw) == MathMin(100, MathMax(0, MathRound(raw)))

\* (mutant) the High threshold is exclusive
riskLevel_StrictHigh(score) ==
  IF score > RISK_THRESHOLD_HIGH THEN "High"
  ELSE IF score >= RISK_THRESHOLD_MEDIUM THEN "Medium"
  ELSE "Low"

riskLevel(score) ==
  IF score >= RISK_THRESHOLD_HIGH THEN "High"
  ELSE IF score >= RISK_THRESHOLD_MEDIUM THEN "Medium"
  ELSE "Low"

calculateRiskScore(input) ==
  LET score == clampRiskScore(rawRiskScore(input))
  IN [score |-> score, level |-> riskLevel(score)]

\* no RiskOutput: the calculation has not been made
NoRiskOutput == [score |-> 0, level |-> ""]

\* the inputs the calculator is applied to
RiskCounts == (-1..MaxCount) \cup {LargeCount}
Durations == {0, 60000}
RiskInputs ==
  {RiskInputOf(g, a, o, t, d) :
     g \in RiskCounts, a \in RiskCounts, o \in RiskCounts, t \in RiskCounts,
     d \in Durations}
\* for two inputs at a time: each count is none, its cap, or above its cap
PairInputs ==
  {RiskInputOf(g, a, o, t, d) :
     g \in {0, RISK_CAP_GAZE, RISK_CAP_GAZE + 1},
     a \in {0, RISK_CAP_ABSENCE, RISK_CAP_ABSENCE + 1},
     o \in {0, RISK_CAP_OBJECT, RISK_CAP_OBJECT + 1},
     t \in {0, RISK_CAP_TAB, RISK_CAP_TAB + 1},
     d \in Durations}

\* Math.round(numerator / denominator * 100), the ratio in hundredths
RoundedRatio(numerator, denominator) ==
  (200 * numerator + denominator) \div (2 * denominator)

\* INITIAL_TIME_QUALITY; focusRatio is in hundredths
INITIAL_TIME_QUALITY ==
  [focusedTimeMs |-> 0, minorMovementTimeMs |-> 0, deviationTimeMs |-> 0,
   absenceTimeMs |-> 0, totalSessionTimeMs |-> 0, focusRatio |-> 100]

\* no metrics aggregation: none has been made
NoMetrics == [made |-> FALSE]

\* the hook's refs and state as the hook is mounted or reset
InitRefs ==
  /\ clock = SessionStart
  /\ pc = "raf"
  /\ frameNow = SessionStart /\ deltaMs = 0 /\ rafNow = 0
  /\ lastFrameTimeRef = SessionStart
  /\ lastGazeInferenceRef = 0 /\ lastObjInferenceRef = 0
  /\ gazeModelLoaded = FALSE /\ objectModelLoaded = FALSE
  /\ gazeStateRef = "NORMAL" /\ deviationStartRef = Null
  /\ lastGazeAlertTimeRef = 0
  /\ absenceStartRef = Null /\ lastFaceAbsentTimeRef = 0
  /\ isFaceAbsentLoggedRef = FALSE
  /\ objectCooldownMap = [l \in Labels |-> 0]
  /\ tqFocusedRef = 0 /\ tqMinorRef = 0 /\ tqDeviationRef = 0
  /\ tqAbsenceRef = 0 /\ longestGazeAwayRef = 0
  /\ lastLoggedAt = 0
  /\ otherLoop = NoInvocation
  /\ timeQuality = INITIAL_TIME_QUALITY
  /\ eventIds = << >>
  /\ strongSince = Null
  /\ gazeModule = NoModel /\ objectModule = NoModel
  /\ report = Null /\ isLoading = FALSE /\ error = "" /\ isInFlightRef = FALSE
  /\ requestsInFlight = {}
  /\ webcamStatus = "idle" /\ streamRef = Null /\ liveStreams = {}
  /\ cameraRequests = {} /\ cameraCalls = 0
  /\ monitoringStatus = "idle"
  /\ effectDeps = << >> /\ effectStart = Null

\* a session has just been started and its first frame requested
InitHook ==
  /\ InitRefs
  /\ events = << >>
  /\ isSessionActive = TRUE
  /\ aiRafRef = 1 /\ rafQueue = {1}
  /\ sessionStartTime = SessionStart /\ sessionEndTime = Null
  /\ riskScore = 0

\* the risk score of the empty log
InitRisk ==
  /\ riskInput = RiskInputOf(0, 0, 0, 0, 0)
  /\ riskOutput = calculateRiskScore(riskInput)
  /\ prevRiskInput = riskInput /\ prevRiskOutput = riskOutput

\* no metrics aggregation is in progress
InitNoMetrics == metricsInput = NoMetrics /\ metricsOutput = NoMetrics

Init == InitHook /\ InitRisk /\ InitNoMetrics

\* ------------------------------------------------------------ environment
\* loadGazeModel / loadObjectModel resolve
GazeModelLoaded ==
  /\ ~gazeModelLoaded
  /\ gazeModelLoaded' = TRUE
  /\ UNCHANGED <<clock, loopVars, objectModelLoaded, gazeVars, absenceVars,
                 objectCooldownMap, tqVars, lastLoggedAt, events>>

ObjectModelLoaded ==
  /\ ~objectModelLoaded
  /\ objectModelLoaded' = TRUE
  /\ UNCHANGED <<clock, loopVars, gazeModelLoaded, gazeVars, absenceVars,
                 objectCooldownMap, tqVars, lastLoggedAt, events>>

\* ------------------------------------------------------------------ aiLoop
\* the end of an invocation: request the next animation frame
ScheduleNextFrame ==
  pc' = "raf" /\ frameNow' = 0 /\ deltaMs' = 0 /\ rafNow' = 0

\* from the object throttle to the end of the invocation, or to its await
ObjectStage(now, fNow, dMs) ==
  LET due == now - lastObjInferenceRef >= STAGGERED_INTERVAL_MS IN
  /\ lastObjInferenceRef' = IF due THEN now ELSE lastObjInferenceRef
  /\ IF due /\ objectModelLoaded
     THEN pc' = "awaitObj" /\ frameNow' = fNow /\ deltaMs' = dMs /\ rafNow' = now
     ELSE ScheduleNextFrame

\* the entry of an invocation, up to its first await
AiLoopEnter(gap) ==
  /\ pc = "raf"
  /\ clock + gap <= MaxClock
  /\ clock' = clock + gap
  /\ LET now == clock' - TimeOrigin
         due == now - lastGazeInferenceRef >= INFERENCE_INTERVAL_MS
     IN /\ lastFrameTimeRef' = clock'
        /\ lastGazeInferenceRef' = IF due THEN now ELSE lastGazeInferenceRef
        /\ IF due /\ gazeModelLoaded
           THEN /\ pc' = "awaitGaze"
                /\ frameNow' = clock'
                /\ deltaMs' = clock' - lastFrameTimeRef
                /\ rafNow' = now
                /\ UNCHANGED lastObjInferenceRef
           ELSE ObjectStage(now, clock', clock' - lastFrameTimeRef)
  /\ UNCHANGED <<modelVars, gazeVars, absenceVars, objectCooldownMap,
                 tqVars, lastLoggedAt, events>>


\* --------------------------------------------- gaze / absence processing
\* the face counts as absent on this result
IsFaceAbsent(result) ==
  \/ ~result.faceDetected
  \/ NumLess(result.faceDetectionConfidence, MIN_FACE_CONFIDENCE)

\* the first absent tick of an episode starts its timer
AbsenceStartOf(start, now) == IF start = Null \/ start = 0 THEN now ELSE start

\* (mutant) the per-episode logged flag is not consulted
ShouldLogFaceAbsent_NoFlag(absenceDuration, logged, now, lastFaceAbsentTime) ==
  /\ absenceDuration >= FACE_ABSENCE_SUSTAIN_MS
  /\ now - lastFaceAbsentTime >= FACE_ABSENCE_COOLDOWN_MS

\* (mutant) the sustain duration is not consulted
ShouldLogFaceAbsent_NoSustain(absenceDuration, logged, now, lastFaceAbsentTime) ==
  /\ ~logged
  /\ now - lastFaceAbsentTime >= FACE_ABSENCE_COOLDOWN_MS

ShouldLogFaceAbsent(absenceDuration, logged, now, lastFaceAbsentTime) ==
  /\ absenceDuration >= FACE_ABSENCE_SUSTAIN_MS
  /\ ~logged
  /\ now - lastFaceAbsentTime >= FACE_ABSENCE_COOLDOWN_MS

\* the state from which a strong deviation starts the sustain timer
StartsMonitoring(state) == state = "NORMAL"

\* (mutant) an active alert may be raised again
MayAlert_AlsoWhileActive(state) ==
  state \in {"MONITORING_DEVIATION", "ALERT_ACTIVE"}

\* the state in which a sustained strong deviation may raise the alert
MayAlert(state) == state = "MONITORING_DEVIATION"

\* (mutant) the gaze state is left as it was while the face is absent
AbsentGazeState_Kept(previous) == previous

\* the gaze state shown while the face is absent
AbsentGazeState(previous) == "ABSENT"

\* (mutant) a present face restarts the timer but keeps the logged flag
RearmAbsence_KeepsFlag ==
  /\ absenceStartRef' = Null
  /\ UNCHANGED isFaceAbsentLoggedRef

\* a present face re-arms the absence tracker
RearmAbsence ==
  /\ absenceStartRef' = Null
  /\ isFaceAbsentLoggedRef' = FALSE

requiredSustain(result) ==
  IF result.isCentered THEN CENTERED_SUSTAIN_DURATION_MS
  ELSE SUSTAIN_DURATION_MS

\* (mutant) the sustain comparison is strict
ShouldAlertGaze_Strict(sustained, required, now, lastGazeAlertTime) ==
  /\ sustained > required
  /\ now - lastGazeAlertTime >= GAZE_COOLDOWN_MS

\* (mutant) the cooldown is not consulted
ShouldAlertGaze_NoCooldown(sustained, required, now, lastGazeAlertTime) ==
  sustained >= required

ShouldAlertGaze(sustained, required, now, lastGazeAlertTime) ==
  /\ sustained >= required
  /\ now - lastGazeAlertTime >= GAZE_COOLDOWN_MS

\* the face is not present: absence tracking, state ABSENT
FaceAbsentBranch ==
  LET start == AbsenceStartOf(absenceStartRef, frameNow)
      absenceDuration == frameNow - start
      log == ShouldLogFaceAbsent(absenceDuration, isFaceAbsentLoggedRef,
                                 frameNow, lastFaceAbsentTimeRef)
  IN /\ absenceStartRef' = start
     /\ isFaceAbsentLoggedRef' = (isFaceAbsentLoggedRef \/ log)
     /\ lastFaceAbsentTimeRef' =
          IF log THEN frameNow ELSE lastFaceAbsentTimeRef
     /\ events' =
          IF log
          THEN addEvent(events, Event("FACE_ABSENT", frameNow, absenceDuration, ""))
          ELSE events
     /\ tqAbsenceRef' = tqAbsenceRef + deltaMs
     /\ gazeStateRef' = AbsentGazeState(gazeStateRef)
     /\ UNCHANGED <<deviationStartRef, lastGazeAlertTimeRef, tqFocusedRef,
                    tqMinorRef, tqDeviationRef, longestGazeAwayRef>>

\* (mutant) minor movement leaves the state machine where it was
SafeOrMinorGate_MinorIgnored(result) ==
  /\ gazeStateRef' = IF result.inSafeZone THEN "NORMAL" ELSE gazeStateRef
  /\ deviationStartRef' = IF result.inSafeZone THEN Null ELSE deviationStartRef
  /\ IF result.inSafeZone
     THEN tqFocusedRef' = tqFocusedRef + deltaMs /\ UNCHANGED tqMinorRef
     ELSE tqMinorRef' = tqMinorRef + deltaMs /\ UNCHANGED tqFocusedRef
  /\ UNCHANGED <<lastGazeAlertTimeRef, tqDeviationRef, longestGazeAwayRef,
                 events>>

\* Gate 1 (safe zone) and Gate 2 (minor movement): always NORMAL, timer reset
SafeOrMinorGate(result) ==
  /\ gazeStateRef' = "NORMAL"
  /\ deviationStartRef' = Null
  /\ IF result.inSafeZone
     THEN tqFocusedRef' = tqFocusedRef + deltaMs /\ UNCHANGED tqMinorRef
     ELSE tqMinorRef' = tqMinorRef + deltaMs /\ UNCHANGED tqFocusedRef
  /\ UNCHANGED <<lastGazeAlertTimeRef, tqDeviationRef, longestGazeAwayRef,
                 events>>

\* Gate 3: strong deviation enters the state machine
StrongDeviationGate(result) ==
  LET entering == StartsMonitoring(gazeStateRef)
      state1 == IF entering THEN "MONITORING_DEVIATION" ELSE gazeStateRef
      start1 == IF entering THEN frameNow ELSE deviationStartRef
      sustained == frameNow - (IF start1 = Null THEN frameNow ELSE start1)
      alert == /\ MayAlert(state1)
               /\ ShouldAlertGaze(sustained, requiredSustain(result), frameNow,
                                  lastGazeAlertTimeRef)
  IN /\ gazeStateRef' = IF alert THEN "ALERT_ACTIVE" ELSE state1
     /\ deviationStartRef' = start1
     /\ lastGazeAlertTimeRef' = IF alert THEN frameNow ELSE lastGazeAlertTimeRef
     /\ longestGazeAwayRef' =
          IF alert /\ sustained > longestGazeAwayRef THEN sustained
          ELSE longestGazeAwayRef
     /\ events' =
          IF alert
          THEN addEvent(events, Event("GAZE_AWAY", frameNow, sustained, ""))
          ELSE events
     /\ tqDeviationRef' = tqDeviationRef + deltaMs
     /\ UNCHANGED <<tqFocusedRef, tqMinorRef>>

\* the face is present: absence tracking re-armed, then the three gates
FacePresentBranch(result) ==
  /\ RearmAbsence
  /\ IF result.inSafeZone \/ ~result.isStrongDeviation
     THEN SafeOrMinorGate(result)
     ELSE StrongDeviationGate(result)
  /\ UNCHANGED <<lastFaceAbsentTimeRef, tqAbsenceRef>>

\* one gaze measurement processed by the trackers
OnGazeMeasurement(result) ==
  IF IsFaceAbsent(result) THEN FaceAbsentBranch ELSE FacePresentBranch(result)

\* `await runGazeInference(video)` resolves with a result
GazeInferenceDone(result) ==
  /\ pc = "awaitGaze"
  /\ OnGazeMeasurement(result)
  /\ Len(events') <= MaxEvents
  /\ ObjectStage(rafNow, frameNow, deltaMs)
  /\ UNCHANGED <<clock, lastFrameTimeRef,
                 lastGazeInferenceRef, modelVars, objectCooldownMap,
                 lastLoggedAt>>

\* `await runGazeInference(video)` resolves with null (video not ready, error)
GazeInferenceNull ==
  /\ pc = "awaitGaze"
  /\ ObjectStage(rafNow, frameNow, deltaMs)
  /\ UNCHANGED <<clock, lastFrameTimeRef,
                 lastGazeInferenceRef, modelVars, gazeVars, absenceVars,
                 objectCooldownMap, tqVars, lastLoggedAt, events>>

\* ------------------------------------------------ object cooldown tracker
ShouldLogObject(now, lastFor) == now - lastFor >= OBJECT_DETECTION_COOLDOWN_MS

\* (mutant) the loop logs without recording the label's emission time
RECURSIVE ProcessDetections_NoUpdate(_, _, _, _)
ProcessDetections_NoUpdate(detections, map, log, now) ==
  IF detections = << >> THEN [map |-> map, log |-> log]
  ELSE LET det == Head(detections)
           lastFor == map[det.label]
       IN IF now - lastFor >= OBJECT_DETECTION_COOLDOWN_MS
          THEN ProcessDetections_NoUpdate(
                 Tail(detections), map,
                 addEvent(log, ObjectEvent(now, det)), now)
          ELSE ProcessDetections_NoUpdate(Tail(detections), map, log, now)

\* (mutant) one emission time is recorded for all labels together
RECURSIVE ProcessDetections_SharedCooldown(_, _, _, _)
ProcessDetections_SharedCooldown(detections, map, log, now) ==
  IF detections = << >> THEN [map |-> map, log |-> log]
  ELSE LET det == Head(detections)
           lastFor == map[det.label]
       IN IF now - lastFor >= OBJECT_DETECTION_COOLDOWN_MS
          THEN ProcessDetections_SharedCooldown(
                 Tail(detections), [l \in DOMAIN map |-> now],
                 addEvent(log, ObjectEvent(now, det)), now)
          ELSE ProcessDetections_SharedCooldown(Tail(detections), map, log, now)

\* the for-loop over result.detections: the cooldown map and the log after it
RECURSIVE ProcessDetections(_, _, _, _)
ProcessDetections(detections, map, log, now) ==
  IF detections = << >> THEN [map |-> map, log |-> log]
  ELSE LET det == Head(detections)
           lastFor == map[det.label]
       IN IF ShouldLogObject(now, lastFor)
          THEN ProcessDetections(
                 Tail(detections), [map EXCEPT ![det.label] = now],
                 addEvent(log, ObjectEvent(now, det)), now)
          ELSE ProcessDetections(Tail(detections), map, log, now)

\* the tracker's part of the object stage, on the detections of a result
ObjectResultProcessed(detections) ==
  /\ pc = "awaitObj"
  /\ LET after == ProcessDetections(detections, objectCooldownMap, events,
                                    frameNow)
     IN /\ objectCooldownMap' = after.map
        /\ events' = after.log
        /\ Len(after.log) <= MaxEvents
  /\ ScheduleNextFrame
  /\ UNCHANGED <<clock, lastFrameTimeRef,
                 lastGazeInferenceRef, lastObjInferenceRef, modelVars,
                 gazeVars, absenceVars, tqVars, lastLoggedAt>>

\* `await runObjectDetection(video)` resolves with a result
ObjectDetectionDone(rawPredictions) ==
  ObjectResultProcessed(runObjectDetection(rawPredictions))

\* `await runObjectDetection(video)` resolves with null
ObjectDetectionNull ==
  /\ pc = "awaitObj"
  /\ ScheduleNextFrame
  /\ UNCHANGED <<clock, lastFrameTimeRef,
                 lastGazeInferenceRef, lastObjInferenceRef, modelVars,
                 gazeVars, absenceVars, objectCooldownMap, tqVars,
                 lastLoggedAt, events>>

\* ------------------------------------------------------ tab-switch effect
\* (mutant) no signal is coalesced
Coalesced_Never(now, last) == FALSE

\* now - lastLoggedAt < COALESCE_WINDOW_MS
Coalesced(now, last) == now - last < COALESCE_WINDOW_MS

\* blur, or visibilitychange to a state other than "visible"
LogTabSwitch ==
  /\ ~Coalesced(clock, lastLoggedAt)
  /\ Len(events) < MaxEvents
  /\ lastLoggedAt' = clock
  /\ events' = addEvent(events, Event("TAB_SWITCH", clock, 0, ""))
  /\ UNCHANGED <<clock, loopVars, modelVars, gazeVars, absenceVars,
                 objectCooldownMap, tqVars>>

\* ----------------------------------------------------------- specification
\* within one active session the store's flag, the frame bookkeeping and the
\* risk calculation are left alone: the frame requested is the pc value "raf"
WithinSession == UNCHANGED <<sessionVars, riskVars, storeVars, viewVars, restVars>>

\* The session while only the gaze model is available: every frame runs the
\* gaze stage and skips the object stage (isObjectModelReady() is false).
Next ==
  \/ GazeModelLoaded /\ WithinSession
  \/ \E gap \in Deltas : AiLoopEnter(gap) /\ WithinSession
  \/ \E result \in GazeResults : GazeInferenceDone(result) /\ WithinSession
  \/ GazeInferenceNull /\ WithinSession

Spec == Init /\ [][Next]_vars

\* The session while only the object model is available: every frame skips
\* the gaze stage (isGazeModelReady() is false) and runs the object stage.
NextObjects ==
  \/ ObjectModelLoaded /\ WithinSession
  \/ \E gap \in Deltas : AiLoopEnter(gap) /\ WithinSession
  \/ \E batch \in RawBatches : ObjectDetectionDone(batch) /\ WithinSession
  \/ ObjectDetectionNull /\ WithinSession

SpecObjects == Init /\ [][NextObjects]_vars

\* The object stage of the hook on its own: the loop over result.detections
\* applied to every list of detections the result's type admits.
NextTracker ==
  \/ ObjectModelLoaded /\ WithinSession
  \/ \E gap \in Deltas : AiLoopEnter(gap) /\ WithinSession
  \/ \E detections \in DetectionLists :
       ObjectResultProcessed(detections) /\ WithinSession
  \/ ObjectDetectionNull /\ WithinSession

SpecTracker == Init /\ [][NextTracker]_vars

\* ---------------------------------------------------------- risk calculator
\* calculateRiskScore applied to the inputs held
CalculateRisk ==
  /\ riskOutput = NoRiskOutput
  /\ riskOutput' = calculateRiskScore(riskInput)
  /\ prevRiskOutput' = calculateRiskScore(prevRiskInput)
  /\ UNCHANGED <<clock, loopVars, modelVars, gazeVars, absenceVars,
                 objectCooldownMap, tqVars, lastLoggedAt, events, sessionVars,
                 riskInput, prevRiskInput, storeVars, viewVars, restVars>>

\* one RiskInput, any of RiskInputs
InitRiskInput ==
  /\ InitHook
  /\ riskInput \in RiskInputs /\ prevRiskInput = riskInput
  /\ riskOutput = NoRiskOutput /\ prevRiskOutput = NoRiskOutput
  /\ InitNoMetrics

NextRisk == CalculateRisk

SpecRisk == InitRiskInput /\ [][NextRisk]_vars

\* two RiskInputs, any two of PairInputs
InitRiskPair ==
  /\ InitHook
  /\ riskInput \in PairInputs /\ prevRiskInput \in PairInputs
  /\ riskOutput = NoRiskOutput /\ prevRiskOutput = NoRiskOutput
  /\ InitNoMetrics

SpecRiskPairs == InitRiskPair /\ [][NextRisk]_vars

\* ---------------------------------------------------------------- event ids
\* what Math.random() may return
Randoms == {1, 2}

\* createEventId: `${Date.now()}-${Math.random().toString(16).slice(2)}`
createEventId(now, random) == <<now, random>>

\* every event appended by the step gets the id createEventId gives it
AssignEventIds ==
  \E randoms \in [1..(Len(events') - Len(events)) -> Randoms] :
    eventIds' =
      eventIds \o [i \in 1..(Len(events') - Len(events)) |->
                     createEventId(clock, randoms[i])]

\* all but the event ids is as within one session
OnlyEventIds ==
  UNCHANGED <<sessionVars, riskVars, storeVars, timeQuality, metricsInput,
              metricsOutput, restVars>>

\* aiLoop from `await runObjectDetection` to its end, ids included
ObjectEventsLogged(rawPredictions) ==
  /\ ObjectDetectionDone(rawPredictions)
  /\ AssignEventIds
  /\ OnlyEventIds

\* the tab-switch handler, ids included
TabSwitchLogged ==
  /\ LogTabSwitch
  /\ AssignEventIds
  /\ OnlyEventIds

\* a frame fires within the first SessionHorizon ms of the session
EarlyFrame(gap) ==
  /\ clock + gap <= SessionStart + SessionHorizon
  /\ AiLoopEnter(gap)
  /\ WithinSession

\* The first SessionHorizon ms of the session of SpecObjects with the
\* tab-switch handler, each event with its id.
NextIds ==
  \/ ObjectModelLoaded /\ WithinSession
  \/ \E gap \in SessionDeltas : EarlyFrame(gap)
  \/ \E batch \in RawBatches : ObjectEventsLogged(batch)
  \/ ObjectDetectionNull /\ WithinSession
  \/ TabSwitchLogged

SpecIds == Init /\ [][NextIds]_vars

\* ------------------------------------------------------ metrics aggregator
\* Math.round(x / d) for a positive d
RoundedQuotient(x, d) == (2 * x + d) \div (2 * d)

\* e.type === type
IsOfType(event, type) == event.type = type

countEventsByType(log, type) ==
  Len(SelectSeq(log, LAMBDA e : IsOfType(e, type)))

\* (mutant) the duration of an event of any type counts
CountsForLongest_AnyType(event, type) == event.durationMs # Null

\* e.type === type && typeof e.metadata?.durationMs === "number"
CountsForLongest(event, type) ==
  IsOfType(event, type) /\ event.durationMs # Null

RECURSIVE LongestOver(_, _, _)
LongestOver(log, type, longest) ==
  IF log = << >> THEN longest
  ELSE LongestOver(Tail(log), type,
                   IF CountsForLongest(Head(log), type)
                   THEN MathMax(longest, Head(log).durationMs)
                   ELSE longest)

longestDuration(log, type) == LongestOver(log, type, 0)

\* (mutant) every event that is not a gaze, absence or object event counts
\* as a tab switch
buildRiskInput_RestAsTab(log, sessionDurationMs) ==
  RiskInputOf(countEventsByType(log, "GAZE_AWAY"),
              countEventsByType(log, "FACE_ABSENT"),
              countEventsByType(log, "OBJECT_DETECTED"),
              Len(log) - countEventsByType(log, "GAZE_AWAY")
                - countEventsByType(log, "FACE_ABSENT")
                - countEventsByType(log, "OBJECT_DETECTED"),
              sessionDurationMs)

buildRiskInput(log, sessionDurationMs) ==
  RiskInputOf(countEventsByType(log, "GAZE_AWAY"),
              countEventsByType(log, "FACE_ABSENT"),
              countEventsByType(log, "OBJECT_DETECTED"),
              countEventsByType(log, "TAB_SWITCH"),
              sessionDurationMs)

\* focusRatio is in thousandths here, as the caller hands it over
aggregateMetrics(log, sessionDurationMs, focusRatio) ==
  LET input == buildRiskInput(log, sessionDurationMs)
      output == calculateRiskScore(input)
  IN [gazeDeviationCount |-> input.gazeDeviationCount,
      faceAbsenceCount |-> input.faceAbsenceCount,
      objectDetectionCount |-> input.objectDetectionCount,
      tabSwitchCount |-> input.tabSwitchCount,
      riskScore |-> output.score,
      riskLevel |-> output.level,
      sessionDurationMs |-> sessionDurationMs,
      focusRatio |-> focusRatio,
      longestGazeAwayMs |-> longestDuration(log, "GAZE_AWAY")]

\* (mutant) the duration is truncated to whole seconds
SessionDurationSec_Truncated(sessionDurationMs) == sessionDurationMs \div 1000

\* Math.round(sessionDurationMs / 1000)
SessionDurationSec(sessionDurationMs) ==
  RoundedQuotient(sessionDurationMs, 1000)

\* sessionDurationSec is in seconds, focusRatio in hundredths,
\* longestGazeAwaySec (Math.round(ms / 100) / 10) in tenths of a second
buildGeminiPayload(log, sessionDurationMs, focusRatio) ==
  [sessionDurationSec |-> SessionDurationSec(sessionDurationMs),
   focusRatio |-> RoundedQuotient(focusRatio, 10),
   gazeIncidents |-> countEventsByType(log, "GAZE_AWAY"),
   longestGazeAwaySec |->
     RoundedQuotient(longestDuration(log, "GAZE_AWAY"), 100),
   faceAbsenceEvents |-> countEventsByType(log, "FACE_ABSENT"),
   objectIncidents |-> countEventsByType(log, "OBJECT_DETECTED"),
   tabSwitches |-> countEventsByType(log, "TAB_SWITCH"),
   riskScore |->
     calculateRiskScore(buildRiskInput(log, sessionDurationMs)).score]

\* the event types of the log; SessionEvent.type is any string
EventTypes ==
  {"GAZE_AWAY", "FACE_ABSENT", "OBJECT_DETECTED", "TAB_SWITCH", "GAZE_NOTE"}

\* the events the aggregator is applied to; a durationMs of Null is metadata
\* without a numeric durationMs
LoggedEvents ==
  {Event("GAZE_AWAY", SessionStart, Null, ""),
   Event("GAZE_AWAY", SessionStart, 2549, ""),
   Event("GAZE_AWAY", SessionStart, 3000, ""),
   Event("FACE_ABSENT", SessionStart, 2500, ""),
   Event("OBJECT_DETECTED", SessionStart, Null, ""),
   Event("TAB_SWITCH", SessionStart, Null, ""),
   Event("GAZE_NOTE", SessionStart, 9000, "")}

EventLogs == UNION {[1..n -> LoggedEvents] : n \in 0..MaxLog}

\* sessionDurationMs and focusRatio (in thousandths) of one aggregation
MetricsSettings ==
  {[sessionDurationMs |-> 120000, focusRatio |-> 880],
   [sessionDurationMs |-> 1499, focusRatio |-> 875],
   [sessionDurationMs |-> 1500, focusRatio |-> 1000],
   [sessionDurationMs |-> 0, focusRatio |-> 4]}

\* one log and its settings, any of EventLogs and MetricsSettings
InitMetrics ==
  /\ InitHook /\ InitRisk
  /\ \E log \in EventLogs, setting \in MetricsSettings :
       metricsInput = [events |-> log,
                       sessionDurationMs |-> setting.sessionDurationMs,
                       focusRatio |-> setting.focusRatio]
  /\ metricsOutput = NoMetrics

\* the aggregator's functions applied to the log held
AggregateMetrics ==
  /\ metricsOutput = NoMetrics
  /\ LET log == metricsInput.events
         ms == metricsInput.sessionDurationMs
         ratio == metricsInput.focusRatio
     IN metricsOutput' =
          [made |-> TRUE,
           count |-> [t \in EventTypes |-> countEventsByType(log, t)],
           longest |-> [t \in EventTypes |-> longestDuration(log, t)],
           summary |-> aggregateMetrics(log, ms, ratio),
           payload |-> buildGeminiPayload(log, ms, ratio)]
  /\ UNCHANGED <<clock, loopVars, modelVars, gazeVars, absenceVars,
                 objectCooldownMap, tqVars, lastLoggedAt, events, sessionVars,
                 riskVars, storeVars, timeQuality, eventIds, restVars, metricsInput>>

NextMetrics == AggregateMetrics

SpecMetrics == InitMetrics /\ [][NextMetrics]_vars

\* ------------------------------------------------------------ session store
\* startSession: set({isSessionActive: true, sessionStartTime: Date.now(), ...})
startSession ==
  /\ isSessionActive' = TRUE
  /\ sessionStartTime' = clock
  /\ sessionEndTime' = Null
  /\ events' = << >>
  /\ riskScore' = 0

\* (mutant) endSession also clears the log
endSession_ClearsLog ==
  /\ isSessionActive' = FALSE
  /\ sessionEndTime' = clock
  /\ events' = << >>
  /\ UNCHANGED <<sessionStartTime, riskScore>>

\* endSession: set({isSessionActive: false, sessionEndTime: Date.now()})
endSession ==
  /\ isSessionActive' = FALSE
  /\ sessionEndTime' = clock
  /\ UNCHANGED <<sessionStartTime, events, riskScore>>

\* resetSession: set(initialState)
resetSession ==
  /\ isSessionActive' = FALSE
  /\ sessionStartTime' = Null
  /\ sessionEndTime' = Null
  /\ events' = << >>
  /\ riskScore' = 0

\* the store's initialState
InitStore ==
  /\ InitRefs /\ InitRisk /\ InitNoMetrics
  /\ isSessionActive = FALSE
  /\ sessionStartTime = Null /\ sessionEndTime = Null
  /\ events = << >>
  /\ riskScore = 0
  /\ aiRafRef = Null /\ rafQueue = {}

\* the store's operations leave the hook's refs alone
StoreAlone ==
  UNCHANGED <<loopVars, modelVars, gazeVars, absenceVars, objectCooldownMap,
              tqVars, lastLoggedAt, aiRafRef, rafQueue, otherLoop, riskVars,
              viewVars, restVars>>

CallStartSession == startSession /\ UNCHANGED clock /\ StoreAlone

CallEndSession == endSession /\ UNCHANGED clock /\ StoreAlone

CallResetSession == resetSession /\ UNCHANGED clock /\ StoreAlone

CallAddEvent(event) ==
  /\ Len(events) < MaxEvents
  /\ events' = addEvent(events, event)
  /\ UNCHANGED <<isSessionActive, sessionStartTime, sessionEndTime,
                 riskScore>>
  /\ UNCHANGED clock /\ StoreAlone

\* the hook's risk effect: setRiskScore(0) when no session is active, else
\* setRiskScore(calculateRiskScore(buildRiskInput(events, elapsedMs)).score)
RiskEffect ==
  /\ riskScore' =
       IF isSessionActive
       THEN calculateRiskScore(
              buildRiskInput(events, clock - sessionStartTime)).score
       ELSE 0
  /\ UNCHANGED <<isSessionActive, sessionStartTime, sessionEndTime, events>>
  /\ UNCHANGED clock /\ StoreAlone

\* Date.now() moves on
TimePasses(gap) ==
  /\ clock + gap <= SessionStart + SessionHorizon
  /\ clock' = clock + gap
  /\ UNCHANGED <<isSessionActive, sessionStartTime, sessionEndTime, events,
                 riskScore>>
  /\ StoreAlone

\* the events handed to addEvent at one moment
EventsNow ==
  {Event(type, clock, 0, "") : type \in {"GAZE_AWAY", "OBJECT_DETECTED"}}

\* The session store on its own: its four operations in any order, and the
\* risk score the hook writes to it.
NextStore ==
  \/ CallStartSession
  \/ CallEndSession
  \/ CallResetSession
  \/ \E event \in EventsNow : CallAddEvent(event)
  \/ RiskEffect
  \/ \E gap \in SessionDeltas : TimePasses(gap)

SpecStore == InitStore /\ [][NextStore]_vars

\* ------------------------------------------------------ session life cycle
\* requestAnimationFrame: the id of the new frame, the least one not pending
FreeFrameId(queue) ==
  CHOOSE i \in 1..MaxFrames :
    i \notin queue /\ \A j \in (1..MaxFrames) \ queue : i <= j

\* aiRafRef.current = requestAnimationFrame(...)
RequestFrame(queue) ==
  /\ queue # 1..MaxFrames
  /\ aiRafRef' = FreeFrameId(queue)
  /\ rafQueue' = queue \cup {FreeFrameId(queue)}

\* an invocation that has reached its end has requested the next frame
EndOfInvocation(queue) ==
  IF pc' = "raf" THEN RequestFrame(queue)
  ELSE aiRafRef' = aiRafRef /\ rafQueue' = queue

\* a requested frame fires and aiLoop runs to its first await or to its end
FrameFires(id, gap) ==
  /\ id \in rafQueue
  /\ isSessionActive
  /\ clock + gap <= SessionStart + SessionHorizon
  /\ AiLoopEnter(gap)
  /\ EndOfInvocation(rafQueue \ {id})
  /\ UNCHANGED <<isSessionActive, otherLoop, riskVars, storeVars, viewVars, restVars>>

\* a requested frame fires while the session is inactive: aiLoop returns
FrameFiresInactive(id) ==
  /\ id \in rafQueue
  /\ ~isSessionActive
  /\ rafQueue' = rafQueue \ {id}
  /\ UNCHANGED <<clock, loopVars, modelVars, gazeVars, absenceVars,
                 objectCooldownMap, tqVars, lastLoggedAt, events,
                 isSessionActive, aiRafRef, otherLoop, riskVars, storeVars,
                 viewVars, restVars>>

\* the invocation held at `await runGazeInference` resumes
GazeResumes(result) ==
  /\ GazeInferenceDone(result)
  /\ EndOfInvocation(rafQueue)
  /\ UNCHANGED <<isSessionActive, otherLoop, riskVars, storeVars, viewVars, restVars>>

GazeResumesNull ==
  /\ GazeInferenceNull
  /\ EndOfInvocation(rafQueue)
  /\ UNCHANGED <<isSessionActive, otherLoop, riskVars, storeVars, viewVars, restVars>>

\* the event loop turns to the other invocation: the one that was running or
\* idle is set aside, the one set aside is the one that runs next
SwitchInvocation ==
  /\ pc # "raf" \/ otherLoop.pc # "raf"
  /\ otherLoop' = [pc |-> pc, frameNow |-> frameNow, deltaMs |-> deltaMs,
                   rafNow |-> rafNow]
  /\ pc' = otherLoop.pc /\ frameNow' = otherLoop.frameNow
  /\ deltaMs' = otherLoop.deltaMs /\ rafNow' = otherLoop.rafNow
  /\ UNCHANGED <<clock, lastFrameTimeRef, lastGazeInferenceRef,
                 lastObjInferenceRef, modelVars, gazeVars, absenceVars,
                 objectCooldownMap, tqVars, lastLoggedAt, events,
                 isSessionActive, aiRafRef, rafQueue, riskVars, storeVars,
                 viewVars, restVars>>

\* the cleanup of the aiLoop effect: cancelAnimationFrame(aiRafRef.current)
CancelFrame ==
  /\ rafQueue' = IF aiRafRef # Null THEN rafQueue \ {aiRafRef} ELSE rafQueue
  /\ aiRafRef' = Null

\* the effect run when the session is no longer active: models disposed, all
\* state machine refs reset
ResetMonitoringState ==
  /\ gazeModelLoaded' = FALSE /\ objectModelLoaded' = FALSE
  /\ gazeStateRef' = "NORMAL" /\ deviationStartRef' = Null
  /\ lastGazeAlertTimeRef' = 0
  /\ absenceStartRef' = Null /\ lastFaceAbsentTimeRef' = 0
  /\ isFaceAbsentLoggedRef' = FALSE
  /\ objectCooldownMap' = [l \in Labels |-> 0]
  /\ lastFrameTimeRef' = clock
  /\ tqFocusedRef' = 0 /\ tqMinorRef' = 0 /\ tqDeviationRef' = 0
  /\ tqAbsenceRef' = 0 /\ longestGazeAwayRef' = 0
  /\ timeQuality' = INITIAL_TIME_QUALITY

\* the store's endSession, and the effects that follow it
EndSession ==
  /\ isSessionActive
  /\ endSession
  /\ CancelFrame
  /\ ResetMonitoringState
  /\ UNCHANGED <<clock, pc, frameNow, deltaMs, rafNow, lastGazeInferenceRef,
                 lastObjInferenceRef, lastLoggedAt, otherLoop,
                 riskVars, eventIds, restVars, metricsInput, metricsOutput>>

\* the store's resetSession, and the effects that follow it
ResetSession ==
  /\ resetSession
  /\ IF isSessionActive
     THEN CancelFrame /\ ResetMonitoringState
     ELSE UNCHANGED <<aiRafRef, rafQueue, modelVars, gazeVars, absenceVars,
                      objectCooldownMap, lastFrameTimeRef, tqVars,
                      timeQuality>>
  /\ UNCHANGED <<clock, pc, frameNow, deltaMs, rafNow, lastGazeInferenceRef,
                 lastObjInferenceRef, lastLoggedAt, otherLoop, riskVars,
                 eventIds, restVars, metricsInput, metricsOutput>>

\* the store's startSession, and the effects that follow it
StartSession ==
  /\ ~isSessionActive
  /\ startSession
  /\ lastLoggedAt' = 0
  /\ lastFrameTimeRef' = clock
  /\ RequestFrame(rafQueue)
  /\ UNCHANGED <<clock, pc, frameNow, deltaMs, rafNow, lastGazeInferenceRef,
                 lastObjInferenceRef, modelVars, gazeVars, absenceVars,
                 objectCooldownMap, tqVars, otherLoop, riskVars, viewVars, restVars>>

\* loadGazeModel, started by the session's load effect, resolves
GazeModelLoadedInSession ==
  /\ isSessionActive
  /\ GazeModelLoaded
  /\ WithinSession

\* Sessions started, ended and reset while the loop runs on the gaze model.
NextLifecycle ==
  \/ GazeModelLoadedInSession
  \/ \E id \in 1..MaxFrames, gap \in SessionDeltas : FrameFires(id, gap)
  \/ \E id \in 1..MaxFrames : FrameFiresInactive(id)
  \/ \E result \in GazeResults : GazeResumes(result)
  \/ GazeResumesNull
  \/ SwitchInvocation
  \/ EndSession
  \/ ResetSession
  \/ StartSession

SpecLifecycle == Init /\ [][NextLifecycle]_vars

\* ------------------------------------------------- published time quality
\* the end of aiLoop: setTimeQuality when totalMs > 0 and now % 4 < 1
PublishTimeQuality(now) ==
  LET totalMs == tqFocusedRef' + tqMinorRef' + tqDeviationRef' + tqAbsenceRef'
  IN IF pc' = "raf" /\ totalMs > 0 /\ now % 4 < 1
     THEN timeQuality' =
            [focusedTimeMs |-> tqFocusedRef',
             minorMovementTimeMs |-> tqMinorRef',
             deviationTimeMs |-> tqDeviationRef',
             absenceTimeMs |-> tqAbsenceRef',
             totalSessionTimeMs |-> totalMs,
             focusRatio |-> RoundedRatio(tqFocusedRef' + tqMinorRef', totalMs)]
     ELSE timeQuality' = timeQuality

\* all but the published time quality is as within one session
OnlyTimeQuality ==
  UNCHANGED <<sessionVars, riskVars, storeVars, eventIds, restVars, metricsInput,
              metricsOutput>>

\* a frame fires: aiLoop to its first await, or to its end
AiLoopFrame(gap) ==
  /\ clock + gap <= SessionStart + TimeQualityHorizon
  /\ AiLoopEnter(gap)
  /\ PublishTimeQuality(clock' - TimeOrigin)
  /\ OnlyTimeQuality

\* aiLoop from `await runGazeInference` to its end
AiLoopAfterGaze(result) ==
  /\ GazeInferenceDone(result)
  /\ PublishTimeQuality(rafNow)
  /\ OnlyTimeQuality

AiLoopAfterGazeNull ==
  /\ GazeInferenceNull
  /\ PublishTimeQuality(rafNow)
  /\ OnlyTimeQuality

\* The session at the frame rate of the browser: frames closer than the gaze
\* throttle, and the time quality published at the end of each invocation.
NextTimeQuality ==
  \/ GazeModelLoaded /\ WithinSession
  \/ \E gap \in FrameGaps : AiLoopFrame(gap)
  \/ \E result \in GazeResults : AiLoopAfterGaze(result)
  \/ AiLoopAfterGazeNull

SpecTimeQuality == Init /\ [][NextTimeQuality]_vars

\* the system clock is set back: Date.now() is earlier by `back`,
\* performance.now() goes on.  The model's `now` is clock - TimeOrigin, so the
\* values taken from performance.now() move back with the clock.  The
\* adjustments followed are made while the gaze model is loading, and not to
\* before the session's start.
WallClockAdjusted(back) ==
  /\ ~gazeModelLoaded
  /\ clock - back >= SessionStart
  /\ clock' = clock - back
  /\ lastGazeInferenceRef' = lastGazeInferenceRef - back
  /\ lastObjInferenceRef' = lastObjInferenceRef - back
  /\ rafNow' = IF pc = "raf" THEN rafNow ELSE rafNow - back
  /\ UNCHANGED <<pc, frameNow, deltaMs, lastFrameTimeRef, modelVars, gazeVars,
                 absenceVars, objectCooldownMap, tqVars, lastLoggedAt, events>>
  /\ WithinSession

\* a frame fires within the first ClockHorizon ms of the session
ClockFrame(gap) ==
  /\ clock + gap <= SessionStart + ClockHorizon
  /\ AiLoopFrame(gap)

\* The first ClockHorizon ms of the same session on a system clock that may
\* be set back.
NextClock ==
  \/ GazeModelLoaded /\ WithinSession
  \/ \E gap \in FrameGaps : ClockFrame(gap)
  \/ \E result \in GazeResults : AiLoopAfterGaze(result)
  \/ AiLoopAfterGazeNull
  \/ \E back \in ClockSetBacks : WallClockAdjusted(back)

SpecClock == Init /\ [][NextClock]_vars

\* ------------------------------------------------- tab switches in a session
\* what the listeners are called with: the window's blur, or the document's
\* visibilitychange to hidden or to visible
TabSignals == {"blur", "hidden", "visible"}

\* onBlur and onVis, registered while the session is active
OnTabSignal(signal) ==
  /\ isSessionActive
  /\ IF signal # "visible" /\ ~Coalesced(clock, lastLoggedAt)
     THEN LogTabSwitch /\ WithinSession
     ELSE UNCHANGED vars

\* time passes between two signals
BetweenSignals(gap) ==
  /\ clock + gap <= SessionStart + SessionHorizon
  /\ clock' = clock + gap
  /\ UNCHANGED <<loopVars, modelVars, gazeVars, absenceVars, objectCooldownMap,
                 tqVars, lastLoggedAt, events>>
  /\ WithinSession

\* Sessions in which only the window and the document signal.
NextTabs ==
  \/ \E signal \in TabSignals : OnTabSignal(signal)
  \/ \E gap \in TabGaps : BetweenSignals(gap)
  \/ EndSession
  \/ StartSession

SpecTabs == Init /\ [][NextTabs]_vars

\* ------------------------------------------------------- sustained deviation
\* the measurement shows a face that the hook takes as present, in a strong
\* deviation outside the safe zone (Gate 3)
IsStrongTick(result) ==
  ~IsFaceAbsent(result) /\ ~(result.inSafeZone \/ ~result.isStrongDeviation)

\* a frame of the session, until SustainHorizon
SustainFrame(gap) ==
  /\ clock + gap <= SessionStart + SustainHorizon
  /\ AiLoopEnter(gap)
  /\ WithinSession

\* a processed tick; strongSince is the first of the processed ticks in
\* strong deviation that reach to this one without a break
SustainTick(result) ==
  /\ GazeInferenceDone(result)
  /\ strongSince' = IF ~IsStrongTick(result) THEN Null
                    ELSE IF strongSince = Null THEN frameNow
                    ELSE strongSince
  /\ UNCHANGED <<sessionVars, riskVars, storeVars, viewVars, moduleVars,
                 reportVars, webcamVars>>

\* The gaze stage alone, with the ticks in strong deviation recorded.
NextSustain ==
  \/ GazeModelLoaded /\ WithinSession
  \/ \E gap \in SessionDeltas : SustainFrame(gap)
  \/ \E result \in GazeResults : SustainTick(result)

SpecSustain == Init /\ [][NextSustain]_vars

\* ------------------------------------------- objects and tabs in a session
\* loadObjectModel, started by the session's load effect, resolves
ObjectModelLoadedInSession ==
  /\ isSessionActive
  /\ ObjectModelLoaded
  /\ WithinSession

\* `await runObjectDetection(video)` resolves and aiLoop runs to its end
ObjectResumes(rawPredictions) ==
  /\ ObjectDetectionDone(rawPredictions)
  /\ EndOfInvocation(rafQueue)
  /\ UNCHANGED <<isSessionActive, otherLoop, riskVars, storeVars, viewVars,
                 restVars>>

ObjectResumesNull ==
  /\ ObjectDetectionNull
  /\ EndOfInvocation(rafQueue)
  /\ UNCHANGED <<isSessionActive, otherLoop, riskVars, storeVars, viewVars,
                 restVars>>

\* the model takes time over a frame: Date.now() advances while aiLoop is at
\* one of its awaits
InferenceTakes(gap) ==
  /\ pc \in {"awaitGaze", "awaitObj"}
  /\ clock + gap <= SessionStart + SessionHorizon
  /\ clock' = clock + gap
  /\ UNCHANGED <<loopVars, modelVars, gazeVars, absenceVars, objectCooldownMap,
                 tqVars, lastLoggedAt, events>>
  /\ WithinSession

\* what the model predicts on a frame of these sessions: nothing or one object
SessionBatches == {batch \in RawBatches : Len(batch) <= 1}

\* Sessions started, ended and reset while the loop runs on the object model
\* and the window and the document signal.
NextSession ==
  \/ ObjectModelLoadedInSession
  \/ \E id \in 1..MaxFrames, gap \in SessionDeltas : FrameFires(id, gap)
  \/ \E id \in 1..MaxFrames : FrameFiresInactive(id)
  \/ \E gap \in InferenceTimes : InferenceTakes(gap)
  \/ \E batch \in SessionBatches : ObjectResumes(batch)
  \/ ObjectResumesNull
  \/ \E signal \in TabSignals : OnTabSignal(signal)
  \/ EndSession
  \/ ResetSession
  \/ StartSession

SpecSession == Init /\ [][NextSession]_vars

\* ------------------------------------------------------- the model loaders
\* a load not told from the ones the module still refers to or waits for
FreeLoads(module) ==
  (1..MaxLoads) \ (module.inflight \cup {module.promise, module.model})

\* loadGazeModel(), up to the first await of the load it starts
loadGazeModel(module, id) ==
  IF module.loaded /\ module.model # Null THEN module
  ELSE IF module.promise # Null THEN module
  ELSE [module EXCEPT !.promise = id, !.inflight = @ \cup {id}]

\* the end of the load started by loadGazeModel
gazeLoadResolved(module, id) ==
  [module EXCEPT !.model = id, !.loaded = TRUE, !.inflight = @ \ {id}]

isGazeModelReady(module) == module.loaded /\ module.model # Null

disposeGazeModel(module) ==
  [module EXCEPT !.model = Null, !.promise = Null, !.loaded = FALSE]

\* loadObjectModel(), up to the first await of the load it starts
loadObjectModel(module, id) ==
  IF module.loaded /\ module.model # Null THEN module
  ELSE IF module.promise # Null THEN module
  ELSE [module EXCEPT !.promise = id, !.inflight = @ \cup {id}]

\* the end of the load started by loadObjectModel
objectLoadResolved(module, id) ==
  [module EXCEPT !.model = id, !.loaded = TRUE, !.inflight = @ \ {id}]

isObjectModelReady(module) == module.loaded /\ module.model # Null

disposeObjectModel(module) ==
  [module EXCEPT !.model = Null, !.promise = Null, !.loaded = FALSE]

\* the refs and state that the loaders and the two model effects leave alone
LoadersAlone ==
  UNCHANGED <<clock, loopVars, gazeVars, absenceVars, objectCooldownMap,
              tqVars, lastLoggedAt, events, sessionVars, riskVars, storeVars,
              viewVars, strongSince, reportVars, webcamVars>>

\* the session becomes active: the load effect calls both loaders
LoadEffect ==
  /\ ~isSessionActive
  /\ startSession
  /\ lastLoggedAt' = 0
  /\ lastFrameTimeRef' = clock
  /\ RequestFrame(rafQueue)
  /\ \E id \in FreeLoads(gazeModule) :
       gazeModule' = loadGazeModel(gazeModule, id)
  /\ \E id \in FreeLoads(objectModule) :
       objectModule' = loadObjectModel(objectModule, id)
  /\ UNCHANGED <<clock, pc, frameNow, deltaMs, rafNow, lastGazeInferenceRef,
                 lastObjInferenceRef, modelVars, gazeVars, absenceVars,
                 objectCooldownMap, tqVars, otherLoop, riskVars, viewVars,
                 strongSince, reportVars, webcamVars>>

\* the session is no longer active: the dispose effect disposes both models
\* and resets the state machine refs
DisposeEffect ==
  /\ isSessionActive
  /\ endSession
  /\ CancelFrame
  /\ ResetMonitoringState
  /\ gazeModule' = disposeGazeModel(gazeModule)
  /\ objectModule' = disposeObjectModel(objectModule)
  /\ UNCHANGED <<clock, pc, frameNow, deltaMs, rafNow, lastGazeInferenceRef,
                 lastObjInferenceRef, lastLoggedAt, otherLoop,
                 riskVars, eventIds, strongSince, reportVars, webcamVars,
                 metricsInput, metricsOutput>>

\* a load of the gaze model reaches its end
GazeLoadResolves(id) ==
  /\ id \in gazeModule.inflight
  /\ gazeModule' = gazeLoadResolved(gazeModule, id)
  /\ gazeModelLoaded' = isGazeModelReady(gazeModule')
  /\ UNCHANGED <<objectModule, objectModelLoaded>>
  /\ LoadersAlone

\* a load of the gaze model fails: its promise rejects
GazeLoadRejects(id) ==
  /\ id \in gazeModule.inflight
  /\ gazeModule' = [gazeModule EXCEPT !.inflight = @ \ {id}]
  /\ UNCHANGED <<objectModule, modelVars>>
  /\ LoadersAlone

\* a load of the object model reaches its end
ObjectLoadResolves(id) ==
  /\ id \in objectModule.inflight
  /\ objectModule' = objectLoadResolved(objectModule, id)
  /\ objectModelLoaded' = isObjectModelReady(objectModule')
  /\ UNCHANGED <<gazeModule, gazeModelLoaded>>
  /\ LoadersAlone

\* a load of the object model fails: its promise rejects
ObjectLoadRejects(id) ==
  /\ id \in objectModule.inflight
  /\ objectModule' = [objectModule EXCEPT !.inflight = @ \ {id}]
  /\ UNCHANGED <<gazeModule, modelVars>>
  /\ LoadersAlone

\* Sessions started and ended while the models load.
NextLoaders ==
  \/ LoadEffect
  \/ DisposeEffect
  \/ \E id \in 1..MaxLoads : GazeLoadResolves(id)
  \/ \E id \in 1..MaxLoads : GazeLoadRejects(id)
  \/ \E id \in 1..MaxLoads : ObjectLoadResolves(id)
  \/ \E id \in 1..MaxLoads : ObjectLoadRejects(id)

SpecLoaders == InitStore /\ [][NextLoaders]_vars

\* ------------------------------------------------------- report generation
MIN_SESSION_DURATION_SEC == 5

\* the payloads generateReport is called with; focusRatio is in hundredths
ReportPayloads ==
  [sessionDurationSec : {0, 4, 5}, riskScore : {50, 101, NaN},
   focusRatio : {100, 150}]

\* Number.isFinite of a number
IsFinite(x) == x # NaN

\* the message of the validation that rejects the payload, "" when none does
PayloadError(p) ==
  IF ~IsFinite(p.sessionDurationSec) \/ p.sessionDurationSec <= 0
  THEN "Invalid session duration"
  ELSE IF p.sessionDurationSec < MIN_SESSION_DURATION_SEC
  THEN "Session too short for analysis"
  ELSE IF ~IsFinite(p.riskScore) \/ p.riskScore < 0 \/ p.riskScore > 100
  THEN "Invalid risk score"
  ELSE IF ~IsFinite(p.focusRatio) \/ p.focusRatio < 0 \/ p.focusRatio > 100
  THEN "Invalid focus ratio"
  ELSE ""

\* all but the state of useGeminiAnalysis
ReportAlone ==
  UNCHANGED <<clock, loopVars, modelVars, gazeVars, absenceVars,
              objectCooldownMap, tqVars, lastLoggedAt, events, sessionVars,
              riskVars, storeVars, viewVars, strongSince, moduleVars,
              webcamVars>>

\* generateReport(data), up to `await fetch(...)` or to its return
GenerateReport(p) ==
  /\ IF isInFlightRef
     THEN UNCHANGED reportVars
     ELSE IF PayloadError(p) # ""
     THEN /\ error' = PayloadError(p)
          /\ UNCHANGED <<report, isLoading, isInFlightRef, requestsInFlight>>
     ELSE /\ requestsInFlight # 1..MaxRequests
          /\ isInFlightRef' = TRUE
          /\ isLoading' = TRUE
          /\ error' = ""
          /\ \E id \in (1..MaxRequests) \ requestsInFlight :
               requestsInFlight' = requestsInFlight \cup {id}
          /\ UNCHANGED report
  /\ ReportAlone

\* the request completes: generateReport from `await fetch(...)` to its end
RequestCompletes(id, ok) ==
  /\ id \in requestsInFlight
  /\ requestsInFlight' = requestsInFlight \ {id}
  /\ IF ok THEN report' = id /\ UNCHANGED error
     ELSE error' = "Failed to generate report." /\ UNCHANGED report
  /\ isLoading' = FALSE
  /\ isInFlightRef' = FALSE
  /\ ReportAlone

\* resetReport()
ResetReport ==
  /\ report' = Null
  /\ error' = ""
  /\ isLoading' = FALSE
  /\ isInFlightRef' = FALSE
  /\ UNCHANGED requestsInFlight
  /\ ReportAlone

\* The report hook called in any order while its requests complete.
NextReport ==
  \/ \E p \in ReportPayloads : GenerateReport(p)
  \/ \E id \in 1..MaxRequests, ok \in BOOLEAN : RequestCompletes(id, ok)
  \/ ResetReport

SpecReport == InitStore /\ [][NextReport]_vars

\* ------------------------------------------------------------- the webcam
\* all but the state of useWebcam and of the webcam lifecycle effect
WebcamAlone ==
  UNCHANGED <<clock, loopVars, modelVars, gazeVars, absenceVars,
              objectCooldownMap, tqVars, lastLoggedAt, events, sessionVars,
              riskVars, storeVars, viewVars, strongSince, moduleVars,
              reportVars>>

\* the dependencies of the webcam lifecycle effect that change
WebcamEffectDeps == <<isSessionActive, webcamStatus>>

\* the webcam lifecycle effect runs, on mount and after a render in which its
\* dependencies have changed: the cleanup of its previous run, then
\* webcam.stop() when the session is inactive and start(), up to the await of
\* getUserMedia in requestAccess, when it is active
WebcamEffect ==
  /\ effectDeps # WebcamEffectDeps
  /\ effectDeps' = WebcamEffectDeps
  /\ IF ~isSessionActive
     THEN /\ liveStreams' = liveStreams \ {streamRef}
          /\ streamRef' = Null
          /\ webcamStatus' = "idle"
          /\ monitoringStatus' = "stopped"
          /\ effectStart' = Null
          /\ UNCHANGED <<cameraRequests, cameraCalls>>
     ELSE /\ cameraCalls < MaxCameraCalls
          /\ monitoringStatus' = "starting"
          /\ webcamStatus' = "requesting"
          /\ cameraCalls' = cameraCalls + 1
          /\ cameraRequests' = cameraRequests \cup {cameraCalls'}
          /\ effectStart' = cameraCalls'
          /\ UNCHANGED <<streamRef, liveStreams>>
  /\ WebcamAlone

\* no run of the effect is due: React runs the effects of a render before
\* it handles the next event
EffectsFlushed == effectDeps = WebcamEffectDeps

\* start() after `await webcam.requestAccess()`, unless its run was cleaned up
StartResumes(id) ==
  monitoringStatus' =
    IF effectStart # id THEN monitoringStatus
    ELSE IF effectDeps[2] = "ready" THEN "active"
    ELSE "starting"

\* getUserMedia resolves with a media stream
AccessGranted(id) ==
  /\ EffectsFlushed
  /\ id \in cameraRequests
  /\ cameraRequests' = cameraRequests \ {id}
  /\ streamRef' = id
  /\ liveStreams' = liveStreams \cup {id}
  /\ webcamStatus' = "ready"
  /\ StartResumes(id)
  /\ UNCHANGED <<cameraCalls, effectDeps, effectStart>>
  /\ WebcamAlone

\* getUserMedia rejects
AccessDenied(id) ==
  /\ EffectsFlushed
  /\ id \in cameraRequests
  /\ cameraRequests' = cameraRequests \ {id}
  /\ streamRef' = Null
  /\ webcamStatus' = "denied"
  /\ StartResumes(id)
  /\ UNCHANGED <<liveStreams, cameraCalls, effectDeps, effectStart>>
  /\ WebcamAlone

\* Sessions started and ended while the camera is requested.
NextWebcam ==
  \/ WebcamEffect
  \/ \E id \in 1..MaxCameraCalls : AccessGranted(id)
  \/ \E id \in 1..MaxCameraCalls : AccessDenied(id)
  \/ EffectsFlushed /\ CallStartSession
  \/ EffectsFlushed /\ CallEndSession

SpecWebcam == InitStore /\ [][NextWebcam]_vars

\* ------------------------------------------------------------------ claims
IsEventOfType(i, type) == i \in DOMAIN events /\ events[i].type = type

\* the time at which the episode reported by events[i] began
EpisodeStart(i) == events[i].timestamp - events[i].durationMs

\* the face is present on a result: detected, and confidence not below 0.6
FacePresentOn(r) ==
  /\ r.faceDetected
  /\ ~(r.faceDetectionConfidence # NaN /\ r.faceDetectionConfidence < 60)

\* a step appends a GAZE_AWAY / FACE_ABSENT event
AppendsEvent(type) ==
  /\ Len(events') = Len(events) + 1
  /\ events'[Len(events')].type = type

\* the first strong tick of the run a strong tick belongs to
RunStart == IF gazeStateRef = "NORMAL" THEN frameNow ELSE deviationStartRef

\* C1: from Normal, with no alert in the cooldown before the run, a run of
\* strong ticks emits nothing before 2500 ms have passed since its first tick
\* and emits exactly one GazeAway, moving to AlertActive, at the first tick
\* that reaches the sustain required on that tick (2500 ms, 3500 ms when the
\* face is centered).
C1_SustainThreshold ==
  [][\A r \in GazeResults :
       ( /\ GazeInferenceDone(r)
         /\ FacePresentOn(r) /\ r.isStrongDeviation
         /\ gazeStateRef \in {"NORMAL", "MONITORING_DEVIATION"}
         /\ RunStart - lastGazeAlertTimeRef >= 5000 )
       => LET sustained == frameNow - RunStart
              needed == IF r.isCentered THEN 3500 ELSE 2500
          IN /\ sustained < 2500 => events' = events
             /\ sustained < needed =>
                  events' = events /\ gazeStateRef' = "MONITORING_DEVIATION"
             /\ sustained >= needed =>
                  /\ events' = Append(events,
                                 Event("GAZE_AWAY", frameNow, sustained, ""))
                  /\ gazeStateRef' = "ALERT_ACTIVE"]_vars

C1_Witness ==
  /\ gazeStateRef = "ALERT_ACTIVE"
  /\ events # << >>
  /\ events[Len(events)] =
       Event("GAZE_AWAY", lastGazeAlertTimeRef, SUSTAIN_DURATION_MS, "")

\* C2 as stated: an episode that starts less than 5000 ms after the last
\* GazeAway never has a GazeAway of its own.
C2_Original ==
  \A i, j \in DOMAIN events :
    (i < j /\ IsEventOfType(i, "GAZE_AWAY") /\ IsEventOfType(j, "GAZE_AWAY"))
    => EpisodeStart(j) - events[i].timestamp >= GAZE_COOLDOWN_MS

\* C2 (amended): an episode that starts before the cooldown has elapsed emits
\* no GazeAway at any tick less than 5000 ms after the last alert.
C2_NoAlertDuringCooldown ==
  [][\A r \in GazeResults :
       (GazeInferenceDone(r) /\ frameNow - lastGazeAlertTimeRef < 5000)
       => ~AppendsEvent("GAZE_AWAY")]_vars

\* a second episode, begun during the cooldown, sustained, and still silent
C2_Witness ==
  /\ gazeStateRef = "MONITORING_DEVIATION"
  /\ pc = "raf"
  /\ \E i \in DOMAIN events :
       /\ events[i].type = "GAZE_AWAY"
       /\ events[i].timestamp = lastGazeAlertTimeRef
       /\ deviationStartRef > lastGazeAlertTimeRef
  /\ lastFrameTimeRef - deviationStartRef >= SUSTAIN_DURATION_MS
  /\ lastFrameTimeRef - lastGazeAlertTimeRef < GAZE_COOLDOWN_MS

\* C3: any two GazeAway events of the log are at least 5000 ms apart.
C3_GazeAwaySpacing ==
  \A i, j \in DOMAIN events :
    (i < j /\ IsEventOfType(i, "GAZE_AWAY") /\ IsEventOfType(j, "GAZE_AWAY"))
    => events[j].timestamp - events[i].timestamp >= 5000

C3_Witness ==
  \E i, j \in DOMAIN events :
    /\ i < j
    /\ events[i].type = "GAZE_AWAY" /\ events[j].type = "GAZE_AWAY"
    /\ events[j].timestamp - events[i].timestamp = GAZE_COOLDOWN_MS

\* C4: no GazeAway is emitted by a tick that starts in AlertActive; a GazeAway
\* is emitted only from MonitoringDeviation, which is entered only from
\* Normal, so between two GazeAway events the state has been Normal.
C4_OneAlertPerCycle ==
  [][/\ gazeStateRef = "ALERT_ACTIVE" => ~AppendsEvent("GAZE_AWAY")
     /\ AppendsEvent("GAZE_AWAY") =>
          gazeStateRef = "MONITORING_DEVIATION" /\ gazeStateRef' = "ALERT_ACTIVE"
     /\ (gazeStateRef' = "MONITORING_DEVIATION"
         /\ gazeStateRef # "MONITORING_DEVIATION") => gazeStateRef = "NORMAL"
     /\ (gazeStateRef = "ALERT_ACTIVE" /\ gazeStateRef' # "ALERT_ACTIVE")
          => gazeStateRef' \in {"NORMAL", "ABSENT"}]_vars

\* an alert still active, the deviation going on past the cooldown
C4_Witness ==
  /\ gazeStateRef = "ALERT_ACTIVE"
  /\ pc = "raf"
  /\ lastFrameTimeRef - lastGazeAlertTimeRef >= GAZE_COOLDOWN_MS
  /\ tqDeviationRef >= lastFrameTimeRef - deviationStartRef
  /\ Len(SelectSeq(events, LAMBDA e : e.type = "GAZE_AWAY")) = 1

\* C5: a tick with the face present that is safe-zone or minor movement
\* leaves the state Normal and deviationStart cleared, appends no event and
\* leaves lastAlertTime unchanged, whatever the state before.
C5_SafeOrMinorForcesNormal ==
  [][\A r \in GazeResults :
       (GazeInferenceDone(r) /\ FacePresentOn(r) /\ ~r.isStrongDeviation)
       => /\ gazeStateRef' = "NORMAL"
          /\ deviationStartRef' = Null
          /\ events' = events
          /\ lastGazeAlertTimeRef' = lastGazeAlertTimeRef]_vars

\* back to Normal by minor movement after an alert
C5_Witness ==
  /\ gazeStateRef = "NORMAL"
  /\ deviationStartRef = Null
  /\ pc = "raf"
  /\ lastGazeAlertTimeRef > 0
  /\ lastFrameTimeRef > lastGazeAlertTimeRef
  /\ tqMinorRef > 0 /\ tqFocusedRef = 0

\* C6: at most one FaceAbsent event per continuous absence episode: a later
\* FaceAbsent event belongs to an episode that began after the earlier event.
C6_OneFaceAbsentPerEpisode ==
  \A i, j \in DOMAIN events :
    (i < j /\ IsEventOfType(i, "FACE_ABSENT") /\ IsEventOfType(j, "FACE_ABSENT"))
    => EpisodeStart(j) > events[i].timestamp

\* an episode already logged, still going on after the cooldown has elapsed
C6_Witness ==
  /\ gazeStateRef = "ABSENT"
  /\ pc = "raf"
  /\ isFaceAbsentLoggedRef
  /\ lastFrameTimeRef - lastFaceAbsentTimeRef >= FACE_ABSENCE_COOLDOWN_MS
  /\ tqAbsenceRef >= lastFrameTimeRef - absenceStartRef
  /\ Len(SelectSeq(events, LAMBDA e : e.type = "FACE_ABSENT")) = 1

\* C7: every FaceAbsent event carries durationMs = now - absenceStart >= 2500,
\* and any two FaceAbsent events are at least 5000 ms apart.
C7_FaceAbsentSustainAndCooldown ==
  /\ \A i \in DOMAIN events :
       events[i].type = "FACE_ABSENT" => events[i].durationMs >= 2500
  /\ \A i, j \in DOMAIN events :
       (i < j /\ IsEventOfType(i, "FACE_ABSENT")
        /\ IsEventOfType(j, "FACE_ABSENT"))
       => events[j].timestamp - events[i].timestamp >= 5000
  /\ isFaceAbsentLoggedRef =>
       \E i \in DOMAIN events :
         events[i] = Event("FACE_ABSENT", lastFaceAbsentTimeRef,
                           lastFaceAbsentTimeRef - absenceStartRef, "")

C7_Witness ==
  \E i, j \in DOMAIN events :
    /\ i < j
    /\ events[i].type = "FACE_ABSENT" /\ events[j].type = "FACE_ABSENT"
    /\ events[i].durationMs = FACE_ABSENCE_SUSTAIN_MS
    /\ events[j].timestamp = lastFaceAbsentTimeRef

\* C8: a present tick clears absenceStart and the logged flag; the next
\* absent tick starts the timer at its own time; and an absent tick at which
\* sustain and cooldown are met, in an episode not yet logged, emits the
\* episode's FaceAbsent.
C8_PresentTickRearms ==
  [][\A r \in GazeResults :
       GazeInferenceDone(r) =>
         /\ FacePresentOn(r) =>
              absenceStartRef' = Null /\ isFaceAbsentLoggedRef' = FALSE
         /\ (~FacePresentOn(r) /\ absenceStartRef = Null) =>
              absenceStartRef' = frameNow
         /\ ( /\ ~FacePresentOn(r)
              /\ absenceStartRef # Null
              /\ ~isFaceAbsentLoggedRef
              /\ frameNow - absenceStartRef >= 2500
              /\ frameNow - lastFaceAbsentTimeRef >= 5000 )
            => events' = Append(events,
                 Event("FACE_ABSENT", frameNow, frameNow - absenceStartRef, ""))
     ]_vars

\* a second episode, timed from its own first tick, has emitted its own event
C8_Witness ==
  /\ isFaceAbsentLoggedRef
  /\ \E i, j \in DOMAIN events :
       /\ i < j
       /\ events[i].type = "FACE_ABSENT" /\ events[j].type = "FACE_ABSENT"
       /\ EpisodeStart(j) = absenceStartRef
       /\ absenceStartRef > events[i].timestamp

\* C9: a processed gaze measurement appends at most one event, and on an
\* absent tick the state becomes Absent and an appended event is FaceAbsent.
C9_AtMostOneEventPerMeasurement ==
  [][\A r \in GazeResults :
       GazeInferenceDone(r) =>
         /\ \/ events' = events
            \/ /\ Len(events') = Len(events) + 1
               /\ SubSeq(events', 1, Len(events)) = events
         /\ ~FacePresentOn(r) =>
              /\ gazeStateRef' = "ABSENT"
              /\ events' # events => AppendsEvent("FACE_ABSENT")]_vars

\* the face went absent in the middle of a sustained deviation
C9_Witness ==
  /\ gazeStateRef = "ABSENT"
  /\ deviationStartRef # Null
  /\ events # << >>
  /\ events[Len(events)].type = "FACE_ABSENT"
  /\ events[Len(events)].timestamp = lastFrameTimeRef
  /\ EpisodeStart(Len(events)) - deviationStartRef >= SUSTAIN_DURATION_MS

HitIn(detections, l) == \E k \in DOMAIN detections : detections[k].label = l

\* C11: object cooldowns are independent per label: wherever the loop over
\* a result's detections is about to run, it appends exactly one event for
\* every distinct label detected whose own cooldown has elapsed and sets that
\* label's emission time, and it appends none for every other label and
\* keeps its emission time, whatever happens to the other labels.
C11_IndependentLabelCooldowns ==
  pc = "awaitObj" =>
    \A detections \in DetectionResults :
      LET after == ProcessDetections(detections, objectCooldownMap, events,
                                     frameNow)
          appended == SubSeq(after.log, Len(events) + 1, Len(after.log))
      IN /\ SubSeq(after.log, 1, Len(events)) = events
         /\ \A l \in Labels :
              LET emitted == Len(SelectSeq(appended, LAMBDA e : e.label = l))
                  due == /\ HitIn(detections, l)
                         /\ frameNow - objectCooldownMap[l] >= 5000
              IN /\ due => emitted = 1 /\ after.map[l] = frameNow
                 /\ ~due => /\ emitted = 0
                            /\ after.map[l] = objectCooldownMap[l]

\* one batch surfaced two labels at once, each recording its own time
C11_Witness ==
  \E i, j \in DOMAIN events :
    /\ i < j
    /\ events[i].type = "OBJECT_DETECTED" /\ events[j].type = "OBJECT_DETECTED"
    /\ events[i].label # events[j].label
    /\ events[i].timestamp = events[j].timestamp
    /\ objectCooldownMap[events[i].label] = events[i].timestamp
    /\ objectCooldownMap[events[j].label] = events[j].timestamp

FullyReset ==
  /\ gazeStateRef = "NORMAL"
  /\ deviationStartRef = Null /\ absenceStartRef = Null
  /\ ~isFaceAbsentLoggedRef
  /\ lastGazeAlertTimeRef = 0 /\ lastFaceAbsentTimeRef = 0
  /\ \A l \in Labels : objectCooldownMap[l] = 0
  /\ tqFocusedRef = 0 /\ tqMinorRef = 0 /\ tqDeviationRef = 0
  /\ tqAbsenceRef = 0

\* the aiLoop invocations in progress or scheduled
LoopsAlive ==
  (IF pc # "raf" THEN 1 ELSE 0) + (IF otherLoop.pc # "raf" THEN 1 ELSE 0)
  + Cardinality(rafQueue)

\* C13: session teardown is a cancellation point: while the session is
\* inactive no step changes the tracker state (a tick that was in flight when
\* the session ended applies nothing), and the step that starts the next
\* session starts it from fully reset tracker state.
C13_TeardownCancels ==
  [][/\ (~isSessionActive /\ ~isSessionActive')
          => UNCHANGED <<gazeVars, absenceVars, objectCooldownMap, tqVars>>
     /\ (~isSessionActive /\ isSessionActive') => FullyReset']_vars

\* C14: at every moment at most one aiLoop invocation is in progress or
\* scheduled, also after end-session and start-session while an old tick is
\* still awaiting its inference.
C14_SingleLoop == LoopsAlive <= 1

\* the calculation has been made
Calculated == riskOutput # NoRiskOutput

Min2(a, b) == IF a <= b THEN a ELSE b

\* C15: for every RiskInput with integer counts, zero, negative and very
\* large ones included, the score is an integer from 0 to 100.
C15_ScoreInRange == Calculated => riskOutput.score \in 0..100

\* every count very large: the raw sum is 175
C15_Witness ==
  /\ Calculated
  /\ riskInput.gazeDeviationCount = LargeCount
  /\ riskInput.faceAbsenceCount = LargeCount
  /\ riskInput.objectDetectionCount = LargeCount
  /\ riskInput.tabSwitchCount = LargeCount
  /\ riskOutput.score = 100

\* C16: for non-negative counts the score is
\* min(100, min(gaze,5)*8 + min(absence,3)*15 + min(object,3)*20 + min(tab,5)*6).
C16_SaturatedFormula ==
  ( /\ Calculated
    /\ riskInput.gazeDeviationCount >= 0 /\ riskInput.faceAbsenceCount >= 0
    /\ riskInput.objectDetectionCount >= 0 /\ riskInput.tabSwitchCount >= 0 )
  => riskOutput.score =
       Min2(100, Min2(riskInput.gazeDeviationCount, 5) * 8
                 + Min2(riskInput.faceAbsenceCount, 3) * 15
                 + Min2(riskInput.objectDetectionCount, 3) * 20
                 + Min2(riskInput.tabSwitchCount, 5) * 6)

\* a gaze count far above its cap scores what the cap scores: 40
C16_Witness ==
  /\ Calculated
  /\ riskInput.gazeDeviationCount = LargeCount
  /\ riskInput.faceAbsenceCount = 0 /\ riskInput.objectDetectionCount = 0
  /\ riskInput.tabSwitchCount = 0
  /\ riskOutput.score = 40

\* C17: the level is a function of the score alone: High iff score >= 70,
\* Medium iff 35 <= score < 70, Low iff score < 35; the all-zero input gives
\* score 0 and level Low.
C17_LevelThresholds ==
  Calculated =>
    /\ riskOutput.level = "High" <=> riskOutput.score >= 70
    /\ riskOutput.level = "Medium" <=>
         (riskOutput.score >= 35 /\ riskOutput.score < 70)
    /\ riskOutput.level = "Low" <=> riskOutput.score < 35
    /\ ( /\ riskInput.gazeDeviationCount = 0 /\ riskInput.faceAbsenceCount = 0
         /\ riskInput.objectDetectionCount = 0 /\ riskInput.tabSwitchCount = 0 )
       => riskOutput.score = 0 /\ riskOutput.level = "Low"

\* a score exactly on the High threshold
C17_Witness ==
  /\ Calculated
  /\ riskOutput.score = 70 /\ riskOutput.level = "High"

\* every count of a is at most the matching count of b
CountsLeq(a, b) ==
  /\ a.gazeDeviationCount <= b.gazeDeviationCount
  /\ a.faceAbsenceCount <= b.faceAbsenceCount
  /\ a.objectDetectionCount <= b.objectDetectionCount
  /\ a.tabSwitchCount <= b.tabSwitchCount

SameCounts(a, b) == CountsLeq(a, b) /\ CountsLeq(b, a)

\* C18: calculateRiskScore is monotonic: if every count of a is at most the
\* matching count of b then score(a) <= score(b).
C18_Monotonic ==
  (Calculated /\ CountsLeq(prevRiskInput, riskInput))
  => prevRiskOutput.score <= riskOutput.score

\* a count at its cap against the same count above its cap
C18_Witness ==
  /\ Calculated
  /\ CountsLeq(prevRiskInput, riskInput)
  /\ prevRiskInput.gazeDeviationCount = 5 /\ riskInput.gazeDeviationCount = 6
  /\ prevRiskInput.tabSwitchCount = 0 /\ riskInput.tabSwitchCount = 5
  /\ prevRiskOutput.score < riskOutput.score

\* C19: two inputs that agree on the four counts produce the same score and
\* level whatever their sessionDurationMs values.
C19_DurationAgnostic ==
  (Calculated /\ SameCounts(prevRiskInput, riskInput))
  => prevRiskOutput = riskOutput

\* the same counts over a session of no duration and one of a minute
C19_Witness ==
  /\ Calculated
  /\ SameCounts(prevRiskInput, riskInput)
  /\ prevRiskInput.sessionDurationMs = 0
  /\ riskInput.sessionDurationMs = 60000
  /\ riskOutput.score > 0

\* the bucket the state resulting from a tick selects, in priority order
BucketOfResultingState(r) ==
  IF gazeStateRef' = "ABSENT" THEN "absence"
  ELSE IF gazeStateRef' \in {"ALERT_ACTIVE", "MONITORING_DEVIATION"}
       THEN "deviation"
  ELSE IF r.inSafeZone THEN "focused"
  ELSE "minor"

\* C20: each tick adds its deltaMs to exactly one of the four buckets, the
\* one selected by the state resulting from the tick (Absent -> absenceMs;
\* AlertActive or MonitoringDeviation -> deviationMs; minor movement ->
\* minorMovementMs; Normal in the safe zone -> focusedMs), and leaves the
\* other three unchanged.
C20_OneBucketByResultingState ==
  [][\A r \in GazeResults :
       GazeInferenceDone(r) =>
         LET bucket == BucketOfResultingState(r)
             share(b) == IF bucket = b THEN deltaMs ELSE 0
         IN /\ tqAbsenceRef' = tqAbsenceRef + share("absence")
            /\ tqDeviationRef' = tqDeviationRef + share("deviation")
            /\ tqMinorRef' = tqMinorRef + share("minor")
            /\ tqFocusedRef' = tqFocusedRef + share("focused")]_vars

\* the time the four buckets account for
Accounted == tqFocusedRef + tqMinorRef + tqDeviationRef + tqAbsenceRef

MaxFrameGap == CHOOSE g \in FrameGaps : \A h \in FrameGaps : h <= g

\* C21: at every point of the session the four buckets add up to the time
\* elapsed since the session's first tick, to within one tick's delta.  The
\* first tick is at most one delta after the session's start, so the sum is
\* never more than the time from the start to the latest tick and never
\* less than it by more than two deltas.
C21_BucketsCoverElapsed ==
  /\ Accounted <= lastFrameTimeRef - SessionStart
  /\ (lastFrameTimeRef - SessionStart) - Accounted <= 2 * MaxFrameGap

\* C22: the published focusRatio is within [0, 1], and it is 1 when all the
\* published time is in the focused bucket.
C22_FocusRatioInUnitRange ==
  /\ timeQuality.focusRatio \in 0..100
  /\ (timeQuality.totalSessionTimeMs > 0
      /\ timeQuality.focusedTimeMs = timeQuality.totalSessionTimeMs)
     => timeQuality.focusRatio = 100

\* C29: when the clock is earlier at a tick than at the tick before, no
\* bucket decreases or becomes negative and no event carries a negative
\* durationMs.
C29_NonMonotonicClamped ==
  [][/\ tqFocusedRef' >= tqFocusedRef /\ tqMinorRef' >= tqMinorRef
     /\ tqDeviationRef' >= tqDeviationRef /\ tqAbsenceRef' >= tqAbsenceRef
     /\ tqFocusedRef' >= 0 /\ tqMinorRef' >= 0
     /\ tqDeviationRef' >= 0 /\ tqAbsenceRef' >= 0
     /\ \A i \in DOMAIN events' : events'[i].durationMs >= 0]_vars

\* C28: a measurement with faceDetected = true whose confidence is NaN is
\* treated as face absent: it takes the absence path (state ABSENT, absence
\* timer running, delta credited to the absence bucket) and leaves the gaze
\* state machine's deviation timer and alert time alone.
C28_MalformedTreatedAbsent ==
  [][\A r \in GazeResults :
       (/\ r.faceDetected /\ r.faceDetectionConfidence = NaN
        /\ GazeInferenceDone(r))
       => /\ gazeStateRef' = "ABSENT"
          /\ absenceStartRef' # Null
          /\ tqAbsenceRef' = tqAbsenceRef + deltaMs
          /\ tqFocusedRef' = tqFocusedRef /\ tqMinorRef' = tqMinorRef
          /\ tqDeviationRef' = tqDeviationRef
          /\ deviationStartRef' = Null]_vars

\* the positions of the log's events of one type
TypeIndexes(log, type) == {i \in DOMAIN log : log[i].type = type}

\* the numeric durations of the log's events of one type
NumericDurations(log, type) ==
  {log[i].durationMs :
     i \in {j \in TypeIndexes(log, type) : log[j].durationMs # Null}}

C24_RiskFromTypeCounts ==
  metricsOutput.made =>
    LET log == metricsInput.events
        n(t) == Cardinality(TypeIndexes(log, t))
        out == calculateRiskScore(
                 RiskInputOf(n("GAZE_AWAY"), n("FACE_ABSENT"),
                             n("OBJECT_DETECTED"), n("TAB_SWITCH"),
                             metricsInput.sessionDurationMs))
        summary == metricsOutput.summary
        payload == metricsOutput.payload
    IN /\ summary.riskScore = out.score /\ summary.riskLevel = out.level
       /\ payload.riskScore = out.score
       /\ summary.gazeDeviationCount = n("GAZE_AWAY")
       /\ summary.faceAbsenceCount = n("FACE_ABSENT")
       /\ summary.objectDetectionCount = n("OBJECT_DETECTED")
       /\ summary.tabSwitchCount = n("TAB_SWITCH")
       /\ log = << >> =>
            /\ summary.gazeDeviationCount = 0 /\ summary.faceAbsenceCount = 0
            /\ summary.objectDetectionCount = 0 /\ summary.tabSwitchCount = 0
            /\ summary.riskScore = 0 /\ summary.riskLevel = "Low"
            /\ payload.riskScore = 0

\* a log with an event of another type next to counted ones
C24_Witness ==
  /\ metricsOutput.made
  /\ metricsOutput.count["GAZE_NOTE"] = 1
  /\ metricsOutput.count["TAB_SWITCH"] = 1
  /\ metricsOutput.summary.riskScore = 14
  /\ metricsOutput.payload.riskScore = 14

\* n is x / d rounded to the nearest integer, halves upwards
IsRounded(n, x, d) == 2 * d * n - d <= 2 * x /\ 2 * x < 2 * d * n + d

\* the example of the payload: [GazeAway(3000), FaceAbsent(2500), TabSwitch],
\* 120000 ms, focusRatio 0.88
ExampleInput ==
  [events |-> <<Event("GAZE_AWAY", SessionStart, 3000, ""),
                Event("FACE_ABSENT", SessionStart, 2500, ""),
                Event("TAB_SWITCH", SessionStart, Null, "")>>,
   sessionDurationMs |-> 120000, focusRatio |-> 880]

ExamplePayload ==
  [sessionDurationSec |-> 120, focusRatio |-> 88, gazeIncidents |-> 1,
   longestGazeAwaySec |-> 30, faceAbsenceEvents |-> 1, objectIncidents |-> 0,
   tabSwitches |-> 1, riskScore |-> 29]

\* the payload's sessionDurationSec and focusRatio are rounded, and the
\* example gives the example's payload
PayloadRoundsAndExample ==
  LET payload == metricsOutput.payload IN
  /\ IsRounded(payload.sessionDurationSec, metricsInput.sessionDurationMs, 1000)
  /\ IsRounded(payload.focusRatio, metricsInput.focusRatio, 10)
  /\ metricsInput = ExampleInput => payload = ExamplePayload

\* C25 (as stated): sessionDurationSec is sessionDurationMs / 1000 rounded to
\* the nearest integer, focusRatio is rounded to 2 decimals, and
\* longestGazeAwaySec is the longest GAZE_AWAY duration in seconds (tenths of
\* a second times 100 are its milliseconds); the example gives its payload.
C25_Original ==
  metricsOutput.made =>
    /\ PayloadRoundsAndExample
    /\ metricsOutput.payload.longestGazeAwaySec * 100
         = metricsOutput.longest["GAZE_AWAY"]

\* C25 (amended): as stated, except that longestGazeAwaySec is the longest
\* GAZE_AWAY duration in seconds rounded to one decimal.
C25_PayloadRounding ==
  metricsOutput.made =>
    /\ PayloadRoundsAndExample
    /\ IsRounded(metricsOutput.payload.longestGazeAwaySec,
                 metricsOutput.longest["GAZE_AWAY"], 100)

\* the example has been aggregated
C25_Witness ==
  /\ metricsOutput.made
  /\ metricsInput = ExampleInput
  /\ metricsOutput.payload = ExamplePayload

\* log is the start of longer, event for event
IsPrefix(log, longer) ==
  Len(log) <= Len(longer) /\ \A i \in DOMAIN log : longer[i] = log[i]

\* C26: the log is append-only: addEvent(e) gives the previous log followed
\* by e, no event already in the log is modified, removed or reordered, and
\* only startSession and resetSession empty the log.
C26_AppendOnlyLog ==
  [][/\ \A e \in EventsNow : CallAddEvent(e) => events' = events \o <<e>>
     /\ \/ IsPrefix(events, events')
        \/ events' = << >> /\ (CallStartSession \/ CallResetSession)]_vars

\* a log of three events appended one by one at different times
C26_Witness ==
  /\ Len(events) = 3
  /\ events[1].timestamp < events[2].timestamp
  /\ events[1].type # events[2].type

\* the store's initialState
IsInitialState ==
  /\ ~isSessionActive /\ sessionStartTime = Null /\ sessionEndTime = Null
  /\ events = << >> /\ riskScore = 0

\* C30: startSession leaves the store active with sessionEndTime null, an
\* empty log and riskScore 0; resetSession restores exactly the initial state;
\* endSession changes only isSessionActive and sessionEndTime and leaves the
\* log, sessionStartTime and riskScore as they were.
C30_SessionLifecycleFrame ==
  [][/\ CallStartSession =>
          /\ isSessionActive' /\ sessionEndTime' = Null
          /\ events' = << >> /\ riskScore' = 0
     /\ CallResetSession => IsInitialState'
     /\ CallEndSession =>
          /\ ~isSessionActive' /\ sessionEndTime' = clock
          /\ events' = events /\ sessionStartTime' = sessionStartTime
          /\ riskScore' = riskScore]_vars

\* a session ended with events in its log and a risk score above 0
C30_Witness ==
  /\ ~isSessionActive /\ sessionEndTime # Null /\ sessionStartTime # Null
  /\ Len(events) = 2 /\ riskScore = 28

\* C27: no two events in the log of one session have the same id, events
\* created in the same millisecond included.
C27_UniqueEventIds ==
  \A i, j \in DOMAIN eventIds : i # j => eventIds[i] # eventIds[j]

\* C31: a blur or visibilitychange-to-hidden signal less than 800 ms after the
\* last logged TAB_SWITCH appends nothing, a visibilitychange to visible never
\* appends, and two TAB_SWITCH events of a session are at least 800 ms apart.
C31_TabSwitchCoalescing ==
  [][/\ \A signal \in TabSignals :
          (/\ OnTabSignal(signal)
           /\ signal = "visible" \/ clock - lastLoggedAt < 800)
          => events' = events
     /\ \A i, j \in DOMAIN events' :
          (i < j /\ events'[i].type = "TAB_SWITCH"
                 /\ events'[j].type = "TAB_SWITCH")
          => events'[j].timestamp - events'[i].timestamp >= 800]_vars

\* two TAB_SWITCH events exactly 800 ms apart, and a third one 1599 ms later,
\* after a signal that was coalesced
C31_Witness ==
  /\ Len(events) = 3
  /\ \A i \in 1..3 : events[i].type = "TAB_SWITCH"
  /\ events[2].timestamp - events[1].timestamp = 800
  /\ events[3].timestamp - events[2].timestamp = 1599

\* C32: after every tick that adds time to a bucket, the published buckets,
\* total and focusRatio equal the accumulators.
C32_PublishedOnEveryAdvance ==
  [][Accounted' > Accounted =>
       /\ timeQuality'.focusedTimeMs = tqFocusedRef'
       /\ timeQuality'.minorMovementTimeMs = tqMinorRef'
       /\ timeQuality'.deviationTimeMs = tqDeviationRef'
       /\ timeQuality'.absenceTimeMs = tqAbsenceRef'
       /\ timeQuality'.totalSessionTimeMs = Accounted'
       /\ timeQuality'.focusRatio =
            RoundedRatio(tqFocusedRef' + tqMinorRef', Accounted')]_vars

\* C33: after a processed tick the gaze state is ABSENT if and only if the
\* face was absent on that tick; after a tick with the face present it is
\* NORMAL, MONITORING_DEVIATION or ALERT_ACTIVE.
C33_AbsentIffFaceAbsent ==
  [][\A r \in GazeResults :
       GazeInferenceDone(r) =>
         /\ gazeStateRef' = "ABSENT" <=> IsFaceAbsent(r)
         /\ ~IsFaceAbsent(r) =>
              gazeStateRef' \in {"NORMAL", "MONITORING_DEVIATION",
                                 "ALERT_ACTIVE"}]_vars

\* C34: when the face is present and in strong deviation on every processed
\* tick of an interval at least CENTERED_SUSTAIN_DURATION_MS (3500 ms) long,
\* and no GAZE_AWAY was emitted in the GAZE_COOLDOWN_MS before the interval,
\* then at the interval's end a GAZE_AWAY has been emitted within it or the
\* state is ALERT_ACTIVE, whatever the state was when the interval began.
C34_SustainedDeviationReported ==
  [][\A r \in GazeResults :
       (/\ SustainTick(r)
        /\ strongSince' # Null
        /\ frameNow - strongSince' >= 3500
        /\ \A i \in DOMAIN events :
             (events[i].type = "GAZE_AWAY" /\ events[i].timestamp < strongSince')
             => frameNow - events[i].timestamp >= GAZE_COOLDOWN_MS)
       => \/ gazeStateRef' = "ALERT_ACTIVE"
          \/ \E i \in DOMAIN events' :
               /\ events'[i].type = "GAZE_AWAY"
               /\ events'[i].timestamp >= strongSince']_vars

\* the risk score derived from a log
ScoreOf(log) == calculateRiskScore(buildRiskInput(log, 0)).score

\* C35: while a session is active the risk score derived from the log never
\* decreases, for every interleaving of object and tab-switch events.
C35_RiskNeverDecreases ==
  [][(isSessionActive /\ isSessionActive') =>
       ScoreOf(events') >= ScoreOf(events)]_vars

\* a session whose log holds an object event and a tab switch, with a score
\* above the one of either alone
C35_Witness ==
  /\ isSessionActive
  /\ Len(events) = 2
  /\ events[1].type = "OBJECT_DETECTED"
  /\ events[2].type = "TAB_SWITCH"
  /\ ScoreOf(events) > ScoreOf(<<events[1]>>)
  /\ ScoreOf(events) > ScoreOf(<<events[2]>>)

\* C36: no event is appended to the log while the session is inactive, even
\* when an inference tick was awaiting a model result as the session ended.
C36_NoAppendWhileInactive ==
  [][(~isSessionActive /\ ~isSessionActive') =>
       Len(events') <= Len(events)]_vars

\* C37: event timestamps are non-decreasing in log order within a session,
\* for every interleaving of tab-switch handlers with an inference tick whose
\* timestamp was captured before it awaited the model.
C37_TimestampsInLogOrder ==
  isSessionActive =>
    \A i, j \in DOMAIN events :
      i < j => events[i].timestamp <= events[j].timestamp

\* dispose has run, or the module was never used, and load has not been
\* called since: load is what sets _modelLoadPromise, dispose what clears it
NotLoadingSinceDispose(module) == module.promise = Null

\* C38: after disposeGazeModel or disposeObjectModel the model is not ready,
\* and it stays not ready until load is called again, even if a load was in
\* flight when dispose ran.
C38_DisposeIsFinal ==
  [][/\ DisposeEffect =>
          ~isGazeModelReady(gazeModule') /\ ~isObjectModelReady(objectModule')
     /\ (NotLoadingSinceDispose(gazeModule)
         /\ NotLoadingSinceDispose(gazeModule'))
        => ~isGazeModelReady(gazeModule')
     /\ (NotLoadingSinceDispose(objectModule)
         /\ NotLoadingSinceDispose(objectModule'))
        => ~isObjectModelReady(objectModule')]_vars

\* C39: at most one analysis request is in flight at any time, for every
\* interleaving of generateReport and resetReport calls with completions.
C39_OneRequestInFlight == Cardinality(requestsInFlight) <= 1

\* C40: whenever the session is inactive, no camera request is pending and no
\* run of the webcam lifecycle effect is due, every media stream obtained by
\* requestAccess has been stopped.
C40_NoStreamLeftLive ==
  (~isSessionActive /\ cameraRequests = {} /\ EffectsFlushed)
  => liveStreams = {}
====
